---------------------------- MODULE Spec2Model ----------------------------
(***************************************************************************)
(* A model of the novel annotator: the chapter/segment parser             *)
(* (utils/textProcessing.ts), the lexical classifier (same file), the     *)
(* layout chunker of the print view (components/PDFView.tsx) and the      *)
(* translation / annotation handlers of the application (App.tsx).        *)
(*                                                                         *)
(* Strings are sequences of one-character strings, so that length,        *)
(* slicing, trimming and pattern matching are computed, not assumed.      *)
(* Array indices keep the source's 0-based numbering; TLA+ sequences are  *)
(* 1-based, so the item at index i of an array a is a[i + 1].              *)
(***************************************************************************)
EXTENDS Integers, Sequences, FiniteSets, TLC

VARIABLES
    \* --- application state (App.tsx) ---
    vocabDB,          \* useState<VocabDB>: tier 1..6 -> set of words
    pdfItems,         \* useState: the print-item sequence
    docs,             \* the chapter arrays created so far, by object identity
    chapters,         \* useState<Chapter[]>: 0 for the initial [], else an index of docs
    fileText,         \* decoded text of the novel file last imported
    currentFileName,  \* useState<string>
    novelProgress,    \* localStorage item 'novel_progress': Null, or the file
                      \* name and the index in docs of the array serialised last
    apiKey,           \* settings.apiKey
    processingState,  \* useState: Null or {type, id}
    calls,            \* handler invocations suspended at their await
    \* --- one call of a function of utils/textProcessing.ts ---
    argument,         \* the string passed
    callee,           \* "none" before the call, then the function's name
    returned,         \* Null before the call, then [value |-> what it returned]
    \* --- one call of computeSmartChunks (PDFView.tsx), locals and position ---
    chunks,           \* let chunks
    currentBatch,     \* let currentBatch
    accTextH,         \* let accTextH (tenths of a unit)
    accCardH,         \* let accCardH (tenths of a unit)
    pos,              \* forEach index of the next item to visit
    pcChunk,          \* "idle" | "loop" | "done"
    processedGroups,  \* the value the last finished call returned
    renders           \* number of finished calls

chunkVars == <<chunks, currentBatch, accTextH, accCardH, pos, pcChunk,
               processedGroups, renders>>
novelVars == <<docs, chapters, fileText, currentFileName, novelProgress>>
asyncVars == <<apiKey, processingState, calls>>
textVars == <<argument, callee, returned>>
vars == <<vocabDB, pdfItems, novelVars, asyncVars, chunkVars, textVars>>

---------------------------------------------------------------------------
(* Strings                                                                 *)

LowerLetters == <<"a","b","c","d","e","f","g","h","i","j","k","l","m",
                  "n","o","p","q","r","s","t","u","v","w","x","y","z">>
UpperLetters == <<"A","B","C","D","E","F","G","H","I","J","K","L","M",
                  "N","O","P","Q","R","S","T","U","V","W","X","Y","Z">>
Digits == <<"0","1","2","3","4","5","6","7","8","9">>

Range(s) == {s[i] : i \in DOMAIN s}

LowerSet == Range(LowerLetters)
UpperSet == Range(UpperLetters)
DigitSet == Range(Digits)

IsLower(c) == c \in LowerSet
IsUpper(c) == c \in UpperSet
IsLetter(c) == IsLower(c) \/ IsUpper(c)
IsDigit(c) == c \in DigitSet
\* JavaScript's \s and trim(): blanks and line terminators
IsSpace(c) == c \in {" ", "\t", "\n", "\r"}

DigitVal(c) == (CHOOSE i \in DOMAIN Digits : Digits[i] = c) - 1

\* String.prototype.toLowerCase, one character
LowerChar(c) ==
    IF IsUpper(c)
    THEN LowerLetters[CHOOSE i \in DOMAIN UpperLetters : UpperLetters[i] = c]
    ELSE c

\* String.prototype.toUpperCase, one character
UpperChar(c) ==
    IF IsLower(c)
    THEN UpperLetters[CHOOSE i \in DOMAIN LowerLetters : LowerLetters[i] = c]
    ELSE c

toLowerCase(s) == [i \in DOMAIN s |-> LowerChar(s[i])]

\* s.slice(0, -n)
DropLast(s, n) == IF Len(s) <= n THEN <<>> ELSE SubSeq(s, 1, Len(s) - n)

\* s.endsWith(suf)
endsWith(s, suf) ==
    /\ Len(suf) <= Len(s)
    /\ SubSeq(s, Len(s) - Len(suf) + 1, Len(s)) = suf

\* s.startsWith(pre)
startsWith(s, pre) ==
    /\ Len(pre) <= Len(s)
    /\ SubSeq(s, 1, Len(pre)) = pre

\* drop the leading blanks of s
RECURSIVE SkipSpaces(_)
SkipSpaces(s) == IF s # <<>> /\ IsSpace(Head(s)) THEN SkipSpaces(Tail(s)) ELSE s

\* null and undefined
Null == [null |-> TRUE]

\* a string of n copies of character c
Rep(c, n) == [i \in 1..n |-> c]

\* Math.ceil(n / d) for n >= 0, d > 0
CeilDiv(n, d) == (n + d - 1) \div d

\* the sequences over S of length at most n
SeqUpTo(S, n) == UNION {[1..k -> S] : k \in 0..n}

---------------------------------------------------------------------------
(* Lexical classifier: utils/textProcessing.ts                             *)

\* constants.ts is not part of the sources at hand; the table holds
\* irregular verb forms mapped to their base form.
IRREGULAR_VERBS ==
    [w \in { <<"w","e","n","t">>, <<"r","a","n">> } |->
        IF w = <<"w","e","n","t">> THEN <<"g","o">> ELSE <<"r","u","n">>]

Tiers == 1..6

\* checkLevel inside getLemma: the first tier holding w, 0 when none does
checkLevel(w, db) ==
    IF \E i \in Tiers : w \in db[i]
    THEN CHOOSE i \in Tiers : w \in db[i] /\ \A j \in Tiers : j < i => w \notin db[j]
    ELSE 0

getLemma(rawWord, db) ==
    LET word == toLowerCase(rawWord) IN
    IF word \in DOMAIN IRREGULAR_VERBS THEN IRREGULAR_VERBS[word]
    ELSE IF endsWith(word, <<"l","y">>) /\ checkLevel(DropLast(word, 2), db) > 0
         THEN DropLast(word, 2)
    ELSE IF endsWith(word, <<"i","l","y">>)
         THEN DropLast(word, 3) \o <<"y">>
    ELSE IF endsWith(word, <<"s">>) /\ Len(word) > 3 THEN DropLast(word, 1)
    ELSE IF endsWith(word, <<"e","d">>) /\ Len(word) > 4 THEN DropLast(word, 2)
    ELSE IF endsWith(word, <<"i","n","g">>) /\ Len(word) > 5 THEN DropLast(word, 3)
    ELSE IF endsWith(word, <<"e","r">>) /\ Len(word) > 4 THEN DropLast(word, 2)
    ELSE IF endsWith(word, <<"e","s","t">>) /\ Len(word) > 5 THEN DropLast(word, 3)
    ELSE word

\* word.replace(/[^a-zA-Z]/g, '')
LettersOnly(s) == SelectSeq(s, IsLetter)

\* variant: the lemma is looked up before the word itself
getWordLevelLemmaFirst(word, db) ==
    LET cleanWord == toLowerCase(LettersOnly(word))
        lemma == getLemma(cleanWord, db)
    IN  IF Len(cleanWord) < 2 THEN 0
        ELSE IF checkLevel(lemma, db) > 0 THEN checkLevel(lemma, db)
        ELSE IF checkLevel(cleanWord, db) > 0 THEN checkLevel(cleanWord, db)
        ELSE 99

\* variant: the length test is made on the raw word
getWordLevelRawLength(word, db) ==
    IF Len(word) < 2 THEN 0
    ELSE LET cleanWord == toLowerCase(LettersOnly(word))
         IN  IF checkLevel(cleanWord, db) > 0 THEN checkLevel(cleanWord, db)
             ELSE IF checkLevel(getLemma(cleanWord, db), db) > 0
                  THEN checkLevel(getLemma(cleanWord, db), db)
             ELSE 99

getWordLevel(word, db) ==
    LET cleanWord == toLowerCase(LettersOnly(word))
        lemma == getLemma(cleanWord, db)
    IN  IF Len(cleanWord) < 2 THEN 0
        ELSE IF checkLevel(cleanWord, db) > 0 THEN checkLevel(cleanWord, db)
        ELSE IF checkLevel(lemma, db) > 0 THEN checkLevel(lemma, db)
        ELSE 99

---------------------------------------------------------------------------
(* Chapter/segment parser: utils/textProcessing.ts                         *)
(*                                                                         *)
(* CJK characters are written as their code points.                        *)

CJK_di == "U+7B2C"
CJK_zhang == "U+7AE0"
CJK_juan == "U+5377"
CJK_hui == "U+56DE"
CJK_jie == "U+7BC0"
CJK_pian == "U+7BC7"
CJK_xu == "U+5E8F"
CJK_yan == "U+8A00"
CJK_xie == "U+6954"
CJK_zi == "U+5B50"
CJK_fan == "U+756A"
CJK_wai == "U+5916"
CJK_hou == "U+540E"
CJK_ji == "U+8BB0"
CJK_houTrad == "U+5F8C"
CJK_jiTrad == "U+8A18"
CJK_wei == "U+5C3E"
CJK_sheng == "U+58F0"
CJK_shengTrad == "U+8072"
CJK_ling == "U+96F6"
CJK_lingCircle == "U+3007"
CJK_yi == "U+4E00"
CJK_er == "U+4E8C"
CJK_liang == "U+4E24"
CJK_san == "U+4E09"
CJK_si == "U+56DB"
CJK_wu == "U+4E94"
CJK_liu == "U+516D"
CJK_qi == "U+4E03"
CJK_ba == "U+516B"
CJK_jiu == "U+4E5D"
CJK_shi == "U+5341"
CJK_bai == "U+767E"
CJK_qian == "U+5343"

\* [0-9 ling yi er san si wu liu qi ba jiu shi bai qian]
HeadingNumerals ==
    DigitSet \cup {CJK_ling, CJK_yi, CJK_er, CJK_san, CJK_si, CJK_wu, CJK_liu,
                   CJK_qi, CJK_ba, CJK_jiu, CJK_shi, CJK_bai, CJK_qian}

\* [zhang juan hui jie pian]
HeadingUnits == {CJK_zhang, CJK_juan, CJK_hui, CJK_jie, CJK_pian}

\* (?:Chapter|Part|Vol|Book)
LatinKeywords ==
    { <<"C","h","a","p","t","e","r">>, <<"P","a","r","t">>, <<"V","o","l">>,
      <<"B","o","o","k">> }

\* xu[zhang yan]? | xiezi | fanwai | houji | houji (trad.) | weisheng |
\* weisheng (trad.) | Introduction | Prologue | Epilogue
NamedSections ==
    { <<CJK_xu>>, <<CJK_xie, CJK_zi>>, <<CJK_fan, CJK_wai>>, <<CJK_hou, CJK_ji>>,
      <<CJK_houTrad, CJK_jiTrad>>, <<CJK_wei, CJK_sheng>>, <<CJK_wei, CJK_shengTrad>>,
      <<"I","n","t","r","o","d","u","c","t","i","o","n">>,
      <<"P","r","o","l","o","g","u","e">>, <<"E","p","i","l","o","g","u","e">> }

\* the pattern's i flag: a prefix match that ignores letter case
startsWithIgnoreCase(s, pre) ==
    /\ Len(pre) <= Len(s)
    /\ toLowerCase(SubSeq(s, 1, Len(pre))) = toLowerCase(pre)

DropFirst(s, n) == SubSeq(s, n + 1, Len(s))

\* the length of the longest prefix of s made of characters of set S
RECURSIVE RunLength(_, _)
RunLength(s, S) ==
    IF s # <<>> /\ Head(s) \in S THEN 1 + RunLength(Tail(s), S) ELSE 0

\* di [numerals]+ [units]
MatchesCjkNumbered(s) ==
    /\ s # <<>>
    /\ Head(s) = CJK_di
    /\ LET n == RunLength(Tail(s), HeadingNumerals)
       IN  /\ n >= 1
           /\ Len(s) >= n + 2
           /\ s[n + 2] \in HeadingUnits

\* (?:Chapter|Part|Vol|Book)\s*\.?\s*[\dIVX]+ under the i flag
MatchesLatinNumbered(s) ==
    \E kw \in LatinKeywords :
        /\ startsWithIgnoreCase(s, kw)
        /\ LET r1 == SkipSpaces(DropFirst(s, Len(kw)))
               r2 == IF r1 # <<>> /\ Head(r1) = "." THEN SkipSpaces(Tail(r1)) ELSE r1
           IN  /\ r2 # <<>>
               /\ LowerChar(Head(r2)) \in DigitSet \cup {"i", "v", "x"}

MatchesNamedSection(s) == \E name \in NamedSections : startsWithIgnoreCase(s, name)

\* chapterRegex.test(s): anchored at the start, after optional blanks
chapterRegexTest(s) ==
    LET t == SkipSpaces(s)
    IN  MatchesCjkNumbered(t) \/ MatchesLatinNumbered(t) \/ MatchesNamedSection(t)

\* text.split(/\r?\n/): cut at every "\n", a "\r" just before it belongs to
\* the separator
StripCr(line) == IF endsWith(line, <<"\r">>) THEN DropLast(line, 1) ELSE line

RECURSIVE SplitFrom(_, _, _)
SplitFrom(text, cur, acc) ==
    IF text = <<>> THEN Append(acc, cur)
    ELSE IF Head(text) = "\n" THEN SplitFrom(Tail(text), <<>>, Append(acc, StripCr(cur)))
    ELSE SplitFrom(Tail(text), Append(cur, Head(text)), acc)

SplitLines(text) == SplitFrom(text, <<>>, <<>>)

\* String.prototype.trim
RECURSIVE DropTrailingSpaces(_)
DropTrailingSpaces(s) ==
    IF s # <<>> /\ IsSpace(s[Len(s)]) THEN DropTrailingSpaces(DropLast(s, 1)) ELSE s

trim(s) == DropTrailingSpaces(SkipSpaces(s))

\* the decimal digits of n >= 0 (template literal `${n}`)
RECURSIVE ToDecimal(_)
ToDecimal(n) ==
    IF n < 10 THEN <<Digits[n + 1]>>
    ELSE Append(ToDecimal(n \div 10), Digits[(n % 10) + 1])

\* `seg-${globalIdCounter++}`
SegId(n) == <<"s","e","g","-">> \o ToDecimal(n)

StartTitle == <<"S","t","a","r","t">>

NewSegment(n, text, isHeader) ==
    [id |-> SegId(n), text |-> text, isChapterHeader |-> isHeader, status |-> "pending"]

ParseStart ==
    [chapters |-> <<>>,
     currentChap |-> [title |-> StartTitle, segments |-> <<>>, isTranslated |-> FALSE],
     globalIdCounter |-> 0]

\* variant: the chapter under construction is archived at every heading
ArchiveAlways(st) == Append(st.chapters, st.currentChap)

\* archive the current chapter if it has content or is not the initial dummy
Archive(st) ==
    IF Len(st.currentChap.segments) > 0 \/ st.currentChap.title # StartTitle
    THEN Append(st.chapters, st.currentChap)
    ELSE st.chapters

\* variant: the heading line opens the chapter but is not kept as a segment
StartChapterNoSegment(st, clean) ==
    [chapters |-> Archive(st),
     currentChap |-> [title |-> clean, segments |-> <<>>, isTranslated |-> FALSE],
     globalIdCounter |-> st.globalIdCounter]

\* variant: the heading segment is not flagged as a header
StartChapterUnflagged(st, clean) ==
    [chapters |-> Archive(st),
     currentChap |-> [title |-> clean,
                      segments |-> <<NewSegment(st.globalIdCounter, clean, FALSE)>>,
                      isTranslated |-> FALSE],
     globalIdCounter |-> st.globalIdCounter + 1]

\* variant: the id counter restarts with every chapter
StartChapterResetIds(st, clean) ==
    [chapters |-> Archive(st),
     currentChap |-> [title |-> clean,
                      segments |-> <<NewSegment(0, clean, TRUE)>>,
                      isTranslated |-> FALSE],
     globalIdCounter |-> 1]

\* a heading line: archive, start the new chapter, add the title as a header
StartChapter(st, clean) ==
    [chapters |-> Archive(st),
     currentChap |-> [title |-> clean,
                      segments |-> <<NewSegment(st.globalIdCounter, clean, TRUE)>>,
                      isTranslated |-> FALSE],
     globalIdCounter |-> st.globalIdCounter + 1]

\* a content line: one more segment of the chapter under construction
AddContent(st, clean) ==
    [st EXCEPT !.currentChap.segments =
                   Append(@, NewSegment(st.globalIdCounter, clean, FALSE)),
               !.globalIdCounter = @ + 1]

\* the lines.forEach body
ParseLine(st, line) ==
    LET clean == trim(line)
    IN  IF clean = <<>> THEN st
        ELSE IF chapterRegexTest(clean) THEN StartChapter(st, clean)
        ELSE AddContent(st, clean)

RECURSIVE ParseLines(_, _)
ParseLines(st, lines) ==
    IF lines = <<>> THEN st ELSE ParseLines(ParseLine(st, Head(lines)), Tail(lines))

\* variant: the last chapter is pushed even when it is empty
PushLastAlways(st) == Append(st.chapters, st.currentChap)

\* push the last chapter
PushLast(st) ==
    IF Len(st.currentChap.segments) > 0
    THEN Append(st.chapters, st.currentChap)
    ELSE st.chapters

parseNovel(text) == PushLast(ParseLines(ParseStart, SplitLines(text)))

---------------------------------------------------------------------------
(* Layout heuristics: components/PDFView.tsx                               *)
(*                                                                         *)
(* The source estimates heights in floating point (6.7, 3.0, 2, 4.5 and    *)
(* the factor 0.95).  The model keeps them exact by counting in tenths of  *)
(* a unit and comparing accTextH * 100 >= accCardH * 95.                   *)

EnCharsPerLine == 42
CnCharsPerLine == 25
EnLineWeight == 67
CnLineWeight == 30
TextBuffer == 20
CardWeight == 45
CloseNum == 95
CloseDen == 100

\* parseInt(x): leading blanks, an optional sign, then decimal digits;
\* NaN when no digit follows.  A number is given by its decimal string.
RECURSIVE DigitsValue(_, _)
DigitsValue(s, acc) ==
    IF s = <<>> \/ ~IsDigit(Head(s)) THEN acc
    ELSE DigitsValue(Tail(s), acc * 10 + DigitVal(Head(s)))

parseInt(x) ==
    LET t == SkipSpaces(x)
        neg == t # <<>> /\ Head(t) = "-"
        u == IF t # <<>> /\ Head(t) \in {"-", "+"} THEN Tail(t) ELSE t
    IN  IF u = <<>> \/ ~IsDigit(Head(u))
        THEN [nan |-> TRUE, val |-> 0]
        ELSE [nan |-> FALSE,
              val |-> IF neg THEN 0 - DigitsValue(u, 0) ELSE DigitsValue(u, 0)]

\* parseInt(v.l) || getWordLevel(v.w, vocabDB): NaN and 0 are falsy
ResolvedLevel(v, db) ==
    LET p == parseInt(v.l)
    IN  IF p.nan \/ p.val = 0 THEN getWordLevel(v.w, db) ELSE p.val

\* variant: the filter without its upper end, so that level 99 counts
IsCardNoUpperEnd(v, db) == ResolvedLevel(v, db) >= 3

IsCard(v, db) == ResolvedLevel(v, db) >= 3 /\ ResolvedLevel(v, db) <= 6

RECURSIVE CountCards(_, _)
CountCards(vocab, db) ==
    IF vocab = <<>> THEN 0
    ELSE (IF IsCard(Head(vocab), db) THEN 1 ELSE 0) + CountCards(Tail(vocab), db)

\* a missing vocab list (if (!vocab) return 0) is the empty list here
getValidVocabCount(vocab, db) == CountCards(vocab, db)

\* Math.ceil(len / perLine) || 1
LinesOf(len, perLine) ==
    IF CeilDiv(len, perLine) = 0 THEN 1 ELSE CeilDiv(len, perLine)

\* a missing text (en ? en.length : 0) is the empty string here
estimateTextHeight(en, cn) ==
    LinesOf(Len(en), EnCharsPerLine) * EnLineWeight
  + LinesOf(Len(cn), CnCharsPerLine) * CnLineWeight
  + TextBuffer

estimateCardHeight(count) == count * CardWeight

\* accTextH >= accCardH * 0.95
CanClose(textH, cardH) == textH * CloseDen >= cardH * CloseNum

EmptyBatchState == [chunks |-> <<>>, currentBatch |-> <<>>, accTextH |-> 0, accCardH |-> 0]

SmartRow(batch) == [type |-> "smart-row", items |-> batch]
ItemRow(item, index) == [type |-> "item", item |-> item, index |-> index]

\* variant: the row is pushed and the batch emptied, the heights are kept
CloseBatchKeepHeights(st) ==
    [st EXCEPT !.chunks = Append(st.chunks, SmartRow(st.currentBatch)),
               !.currentBatch = <<>>]

\* close the batch: push the row and reset the batch and both accumulators
CloseBatch(st) ==
    [chunks |-> Append(st.chunks, SmartRow(st.currentBatch)),
     currentBatch |-> <<>>, accTextH |-> 0, accCardH |-> 0]

\* variant: the header or break is pushed without closing the pending batch
VisitOtherNoClose(st, item, index) ==
    [st EXCEPT !.chunks = Append(st.chunks, ItemRow(item, index))]

\* the forEach body for a header or a break
VisitOther(st, item, index) ==
    LET closed == IF Len(st.currentBatch) > 0 THEN CloseBatch(st) ELSE st
    IN  [closed EXCEPT !.chunks = Append(closed.chunks, ItemRow(item, index))]

\* the forEach body for a content item
VisitContent(st, item, index, db) ==
    LET tH == estimateTextHeight(item.data.en, item.data.cn)
        cH == estimateCardHeight(getValidVocabCount(item.data.vocab, db))
        grown == [st EXCEPT !.currentBatch = Append(@, [item |-> item, index |-> index]),
                            !.accTextH = @ + tH,
                            !.accCardH = @ + cH]
    IN  IF CanClose(grown.accTextH, grown.accCardH) THEN CloseBatch(grown) ELSE grown

\* the forEach body
VisitItem(st, item, index, db) ==
    IF item.type # "content"
    THEN VisitOther(st, item, index)
    ELSE VisitContent(st, item, index, db)

\* variant: the pending batch is not pushed at the end
LeftoversDropped(st) == st.chunks

\* if (currentBatch.length > 0) chunks.push(...); return chunks
Leftovers(st) ==
    IF Len(st.currentBatch) > 0
    THEN Append(st.chunks, SmartRow(st.currentBatch))
    ELSE st.chunks

RECURSIVE VisitAll(_, _, _, _)
VisitAll(st, items, index, db) ==
    IF index >= Len(items) THEN st
    ELSE VisitAll(VisitItem(st, items[index + 1], index, db), items, index + 1, db)

computeSmartChunks(items, db) == Leftovers(VisitAll(EmptyBatchState, items, 0, db))

---------------------------------------------------------------------------
(* Inputs of the layout chunker                                            *)

MaxItems == 4
MaxRenders == 2

W_the == <<"t","h","e">>
W_go == <<"g","o">>
W_run == <<"r","u","n">>
W_running == <<"r","u","n","n","i","n","g">>
W_happy == <<"h","a","p","p","y">>
W_quick == <<"q","u","i","c","k">>
W_xyzzy == <<"x","y","z","z","y">>

EmptyDB == [i \in Tiers |-> {}]
SampleDB == [i \in Tiers |->
    CASE i = 1 -> {W_the}
      [] i = 2 -> {W_go}
      [] i = 3 -> {W_run}
      [] i = 4 -> {W_happy}
      [] i = 5 -> {}
      [] i = 6 -> {W_quick}]

\* annotation entries {w, l}; cm and def play no part in the layout
V_l3 == [w |-> W_run, l |-> <<"3">>]
V_l4 == [w |-> W_happy, l |-> <<"4">>]
V_lookup == [w |-> W_running, l |-> <<"0">>]
V_named == [w |-> W_quick, l |-> <<"L","6">>]
V_extra == [w |-> W_xyzzy, l |-> <<"9","9">>]
V_basic == [w |-> W_the, l |-> <<"1">>]

ShortEn == Rep("e", 2)
LongEn == Rep("e", 43)
ShortCn == Rep("c", 1)

Content(cn, en, vocab) == [type |-> "content", data |-> [cn |-> cn, en |-> en, vocab |-> vocab]]
Header(text) == [type |-> "header", data |-> [text |-> text]]
Break == [type |-> "break"]

C_plain == Content(ShortCn, ShortEn, <<V_extra, V_basic>>)
C_cards3 == Content(ShortCn, ShortEn, <<V_l3, V_l4, V_lookup>>)
C_long3 == Content(ShortCn, LongEn, <<V_l3, V_l4, V_named>>)
C_cards5 == Content(ShortCn, ShortEn, <<V_l3, V_l4, V_l3, V_l4, V_l3>>)

ItemUniverse == {C_plain, C_cards3, C_long3, C_cards5, Header(ShortCn), Break}

---------------------------------------------------------------------------
(* One call of computeSmartChunks, item by item.  The call runs inside a   *)
(* render of PDFView and nothing interleaves with it.                      *)

BatchState == [chunks |-> chunks, currentBatch |-> currentBatch,
               accTextH |-> accTextH, accCardH |-> accCardH]

\* variant: the batch and the heights outlive the call
ChunkStartStale ==
    /\ pcChunk \in {"idle", "done"}
    /\ renders < MaxRenders
    /\ chunks' = <<>>
    /\ pos' = 0
    /\ pcChunk' = "loop"
    /\ UNCHANGED <<currentBatch, accTextH, accCardH, processedGroups, renders,
                   vocabDB, pdfItems, novelVars, asyncVars, textVars>>

\* entering the function: its four locals are created afresh
ChunkStart ==
    /\ pcChunk \in {"idle", "done"}
    /\ renders < MaxRenders
    /\ chunks' = EmptyBatchState.chunks
    /\ currentBatch' = EmptyBatchState.currentBatch
    /\ accTextH' = EmptyBatchState.accTextH
    /\ accCardH' = EmptyBatchState.accCardH
    /\ pos' = 0
    /\ pcChunk' = "loop"
    /\ UNCHANGED <<processedGroups, renders, vocabDB, pdfItems, novelVars, asyncVars, textVars>>

\* one iteration of items.forEach
ChunkVisit ==
    /\ pcChunk = "loop"
    /\ pos < Len(pdfItems)
    /\ \E st \in {VisitItem(BatchState, pdfItems[pos + 1], pos, vocabDB)} :
           /\ chunks' = st.chunks
           /\ currentBatch' = st.currentBatch
           /\ accTextH' = st.accTextH
           /\ accCardH' = st.accCardH
    /\ pos' = pos + 1
    /\ UNCHANGED <<pcChunk, processedGroups, renders, vocabDB, pdfItems, novelVars, asyncVars, textVars>>

\* after the loop: push the leftovers and return chunks
ChunkReturn ==
    /\ pcChunk = "loop"
    /\ pos = Len(pdfItems)
    /\ \E result \in {Leftovers(BatchState)} :
           /\ chunks' = result
           /\ processedGroups' = result
    /\ renders' = renders + 1
    /\ pcChunk' = "done"
    /\ UNCHANGED <<currentBatch, accTextH, accCardH, pos, vocabDB, pdfItems, novelVars, asyncVars, textVars>>

InitChunk ==
    /\ vocabDB \in {EmptyDB, SampleDB}
    /\ pdfItems \in SeqUpTo(ItemUniverse, MaxItems)
    /\ chunks = <<>>
    /\ currentBatch = <<>>
    /\ accTextH = 0
    /\ accCardH = 0
    /\ pos = 0
    /\ pcChunk = "idle"
    /\ processedGroups = <<>>
    /\ renders = 0
    /\ docs = <<>>
    /\ chapters = 0
    /\ currentFileName = <<>>
    /\ novelProgress = Null
    /\ apiKey = <<>>
    /\ processingState = Null
    /\ argument = <<>>
    /\ callee = "none"
    /\ returned = Null
    /\ calls = <<>>
    /\ fileText = <<>>

NextChunk == ChunkStart \/ ChunkVisit \/ ChunkReturn

SpecChunk == InitChunk /\ [][NextChunk]_vars

---------------------------------------------------------------------------
(* Properties of the layout chunker                                        *)

Returned == pcChunk = "done"

IsSmartRow(r) == r.type = "smart-row"

\* the indices a row records, in order
RowIndices(r) ==
    IF IsSmartRow(r) THEN [i \in DOMAIN r.items |-> r.items[i].index]
    ELSE <<r.index>>

RECURSIVE FlatIndices(_)
FlatIndices(rows) ==
    IF rows = <<>> THEN <<>> ELSE RowIndices(Head(rows)) \o FlatIndices(Tail(rows))

\* the items a row records, each with its recorded index
RowEntries(r) ==
    IF IsSmartRow(r) THEN {r.items[i] : i \in DOMAIN r.items}
    ELSE {[item |-> r.item, index |-> r.index]}

\* the heights of the first n entries of a smart-row, summed from zero
RECURSIVE RowTextH(_, _)
RowTextH(entries, n) ==
    IF n = 0 THEN 0
    ELSE RowTextH(entries, n - 1)
         + estimateTextHeight(entries[n].item.data.en, entries[n].item.data.cn)

RECURSIVE RowCardH(_, _)
RowCardH(entries, n) ==
    IF n = 0 THEN 0
    ELSE RowCardH(entries, n - 1)
         + estimateCardHeight(getValidVocabCount(entries[n].item.data.vocab, vocabDB))

Balanced(entries, n) == CanClose(RowTextH(entries, n), RowCardH(entries, n))

\* C1: the rows of a finished call are an order-preserving partition of the
\* input: read in output order the recorded indices are 0, 1, ..., n-1, and
\* every recorded index is the position of its item in the input sequence.
C1_OrderPreservingPartition ==
    Returned =>
        /\ FlatIndices(processedGroups) = [i \in 1..Len(pdfItems) |-> i - 1]
        /\ \A k \in DOMAIN processedGroups :
               \A e \in RowEntries(processedGroups[k]) :
                   /\ e.index + 1 \in DOMAIN pdfItems
                   /\ e.item = pdfItems[e.index + 1]

\* a finished call whose output has a row of several paragraphs and a
\* standalone row
C1_Witness ==
    /\ Returned
    /\ \E k \in DOMAIN processedGroups :
           IsSmartRow(processedGroups[k]) /\ Len(processedGroups[k].items) >= 2
    /\ \E k \in DOMAIN processedGroups : ~IsSmartRow(processedGroups[k])

\* C2: every header or break is a standalone 'item' row; every smart-row is
\* non-empty, holds content items only, and does not reach across a header or
\* a break of the input.
C2_HeadersStandAlone ==
    Returned =>
        /\ \A i \in DOMAIN pdfItems :
               pdfItems[i].type # "content" =>
                   \E k \in DOMAIN processedGroups :
                       /\ processedGroups[k].type = "item"
                       /\ processedGroups[k].index = i - 1
                       /\ processedGroups[k].item = pdfItems[i]
        /\ \A k \in DOMAIN processedGroups :
               LET r == processedGroups[k] IN
               /\ r.type \in {"item", "smart-row"}
               /\ r.type = "item" => r.item.type # "content"
               /\ IsSmartRow(r) =>
                      /\ Len(r.items) > 0
                      /\ \A j \in DOMAIN r.items : r.items[j].item.type = "content"
                      /\ \A i \in DOMAIN pdfItems :
                             /\ r.items[1].index < i - 1
                             /\ i - 1 < r.items[Len(r.items)].index
                             => pdfItems[i].type = "content"

\* a pending, unbalanced batch is closed by a header or break, and content
\* follows it
C2_Witness ==
    /\ Returned
    /\ \E k \in DOMAIN processedGroups :
           /\ k + 2 \in DOMAIN processedGroups
           /\ IsSmartRow(processedGroups[k])
           /\ ~Balanced(processedGroups[k].items, Len(processedGroups[k].items))
           /\ processedGroups[k + 1].type = "item"
           /\ IsSmartRow(processedGroups[k + 2])

C4_Deterministic ==
    [][(ChunkReturn /\ renders >= 1) => processedGroups' = processedGroups]_vars

\* a second call has returned, after a first call that ended with a pending,
\* unbalanced batch
C4_Witness ==
    /\ Returned
    /\ renders >= 2
    /\ Len(currentBatch) > 0
    /\ accCardH > 0
    /\ Len(processedGroups) >= 2

---------------------------------------------------------------------------
(* Novel import: App.tsx                                                   *)

MaxImports == 1
MaxLines == 3

\* the chapter array held by the chapters state
Doc(ref) == IF ref = 0 THEN <<>> ELSE docs[ref]

\* ds without the chapter objects that neither the chapters state (ref) nor
\* a suspended handler (cs) refers to any more: nothing can read them again
Sweep(ds, ref, cs) ==
    [r \in DOMAIN ds |->
        IF r = ref \/ \E k \in DOMAIN cs : cs[k].newChapters = r
        THEN ds[r] ELSE <<>>]

\* handleNovelImport, once the file is decoded: parse, setChapters
handleNovelImport(file) ==
    /\ Len(docs) < MaxImports
    /\ fileText' = file.text
    /\ \E parsedChapters \in {parseNovel(file.text)} :
        /\ docs' = Sweep(Append(docs, parsedChapters), Len(docs) + 1, calls)
        /\ chapters' = Len(docs) + 1
        /\ currentFileName' = file.name
        /\ novelProgress' = [fileName |-> file.name, chapters |-> Len(docs) + 1]

F_name == <<"n", ".", "t", "x", "t">>

\* lines of an input file: blank, plain, padded, CRLF-terminated, headings
\* of the three kinds, and near-headings
L_empty == <<>>
L_blanks == <<" ", "\t">>
L_plain == <<"x">>
L_padded == <<" ", "y", " ">>
L_crlf == <<"z", "\r">>
L_cjkHeading == <<CJK_di, CJK_shi, CJK_er, CJK_zhang, " ", "t">>
L_cjkNoUnit == <<CJK_di, CJK_yi, "x">>
L_latinHeading == <<" ", "c", "h", "a", "p", "t", "e", "r", ".", " ", "2">>
L_latinNoNumber == <<"B", "o", "o", "k", " ", "o", "f">>
L_named == <<CJK_xu, CJK_zhang, "\r">>

LineUniverse ==
    {L_empty, L_blanks, L_plain, L_padded, L_crlf, L_cjkHeading, L_cjkNoUnit,
     L_latinHeading, L_latinNoNumber, L_named}

\* lines.join("\n")
RECURSIVE JoinLines(_)
JoinLines(lines) ==
    IF lines = <<>> THEN <<>>
    ELSE IF Len(lines) = 1 THEN lines[1]
    ELSE lines[1] \o <<"\n">> \o JoinLines(Tail(lines))

TextUniverse == {JoinLines(ls) : ls \in SeqUpTo(LineUniverse, MaxLines)}

ImportFile ==
    /\ handleNovelImport([name |-> F_name, text |-> fileText])
    /\ UNCHANGED <<vocabDB, pdfItems, asyncVars, chunkVars, textVars>>

InitParse ==
    /\ fileText \in TextUniverse
    /\ docs = <<>>
    /\ chapters = 0
    /\ currentFileName = <<>>
    /\ novelProgress = Null
    /\ apiKey = <<>>
    /\ processingState = Null
    /\ argument = <<>>
    /\ callee = "none"
    /\ returned = Null
    /\ calls = <<>>
    /\ vocabDB = EmptyDB
    /\ pdfItems = <<>>
    /\ chunks = <<>>
    /\ currentBatch = <<>>
    /\ accTextH = 0
    /\ accCardH = 0
    /\ pos = 0
    /\ pcChunk = "idle"
    /\ processedGroups = <<>>
    /\ renders = 0

NextParse == ImportFile

SpecParse == InitParse /\ [][NextParse]_vars

---------------------------------------------------------------------------
(* Properties of the parser                                                *)

Imported == chapters # 0

\* what parseNovel returned for the imported file
Parsed == Doc(chapters)

\* the lines of a text: the maximal runs of characters other than "\n"
RECURSIVE CutAtNewlines(_, _, _)
CutAtNewlines(text, cur, acc) ==
    IF text = <<>> THEN Append(acc, cur)
    ELSE IF Head(text) = "\n" THEN CutAtNewlines(Tail(text), <<>>, Append(acc, cur))
    ELSE CutAtNewlines(Tail(text), Append(cur, Head(text)), acc)

InputLines == CutAtNewlines(fileText, <<>>, <<>>)

IsNonBlankLine(line) == \E i \in DOMAIN line : ~IsSpace(line[i])
IsHeadingLine(line) == chapterRegexTest(trim(line))

NonBlankLines == SelectSeq(InputLines, IsNonBlankLine)
HeadingCount == Len(SelectSeq(NonBlankLines, IsHeadingLine))

\* some content line comes before the first heading
HasPreamble == NonBlankLines # <<>> /\ ~IsHeadingLine(NonBlankLines[1])

RECURSIVE AllSegments(_)
AllSegments(chaps) ==
    IF chaps = <<>> THEN <<>> ELSE Head(chaps).segments \o AllSegments(Tail(chaps))

HeaderPositions(chap) == {i \in DOMAIN chap.segments : chap.segments[i].isChapterHeader}

IsSegId(id) ==
    /\ startsWith(id, <<"s","e","g","-">>)
    /\ Len(id) > 4
    /\ \A i \in 5..Len(id) : IsDigit(id[i])

SegNumber(id) == DigitsValue(DropFirst(id, 4), 0)

\* C5 as claimed: a text without heading lines yields exactly one chapter,
\* with one segment per non-blank line.
C5_AsClaimed ==
    (Imported /\ HeadingCount = 0) =>
        /\ Len(Parsed) = 1
        /\ Len(Parsed[1].segments) = Len(NonBlankLines)

\* C5, amended: a text without heading lines and with at least one non-blank
\* line yields exactly one chapter, with one segment per non-blank line; a
\* text without any non-blank line yields no chapter.
C5_NoHeadings ==
    (Imported /\ HeadingCount = 0) =>
        IF NonBlankLines = <<>>
        THEN Parsed = <<>>
        ELSE /\ Len(Parsed) = 1
             /\ Len(Parsed[1].segments) = Len(NonBlankLines)

\* a text of several content lines and a blank line, without headings
C5_Witness ==
    /\ Imported
    /\ HeadingCount = 0
    /\ Len(NonBlankLines) >= 2
    /\ Len(InputLines) > Len(NonBlankLines)
    /\ Len(Parsed) = 1

\* C6 as claimed: N heading lines yield exactly N chapters, for every text.
C6_AsClaimed == Imported => Len(Parsed) = HeadingCount

\* C6, amended: N heading lines yield N chapters when no content line comes
\* before the first heading, and N + 1 chapters (the first being the
\* placeholder chapter of those lines) when one does.
C6_ChapterCount ==
    Imported => Len(Parsed) = HeadingCount + (IF HasPreamble THEN 1 ELSE 0)

\* a text with content before the first of several headings
C6_Witness ==
    /\ Imported
    /\ HasPreamble
    /\ HeadingCount >= 2
    /\ Len(Parsed) = HeadingCount + 1

\* C7 as claimed: every chapter has exactly one header segment, its first.
C7_AsClaimed ==
    Imported => \A k \in DOMAIN Parsed : HeaderPositions(Parsed[k]) = {1}

\* C7, amended: every chapter other than the placeholder chapter of the
\* lines before the first heading has exactly one header segment, its first;
\* the placeholder chapter (title "Start", always the first) has none.
C7_HeaderFirst ==
    Imported =>
        \A k \in DOMAIN Parsed :
            IF k = 1 /\ HasPreamble
            THEN /\ Parsed[k].title = StartTitle
                 /\ HeaderPositions(Parsed[k]) = {}
            ELSE /\ Parsed[k].title # StartTitle
                 /\ HeaderPositions(Parsed[k]) = {1}

\* a placeholder chapter followed by a chapter of a heading and content
C7_Witness ==
    /\ Imported
    /\ HasPreamble
    /\ Len(Parsed) >= 2
    /\ Len(Parsed[2].segments) >= 2

\* C8: the segment ids of one parse are "seg-<k>" with k strictly increasing
\* in document order across all chapters, hence pairwise different.
C8_MonotonicIds ==
    Imported =>
        LET segs == AllSegments(Parsed) IN
        /\ \A i \in DOMAIN segs : IsSegId(segs[i].id)
        /\ \A i, j \in DOMAIN segs :
               i < j => SegNumber(segs[i].id) < SegNumber(segs[j].id)

\* two chapters with three segments or more, the first chapter opened by a
\* heading
C8_Witness ==
    /\ Imported
    /\ ~HasPreamble
    /\ Len(Parsed) >= 2
    /\ Len(AllSegments(Parsed)) >= 3

\* C9: the segment texts, in chapter order then segment order, are the
\* trimmed non-blank input lines in input order.
C9_LinesPreserved ==
    Imported =>
        LET segs == AllSegments(Parsed) IN
        [i \in DOMAIN segs |-> segs[i].text]
            = [i \in DOMAIN NonBlankLines |-> trim(NonBlankLines[i])]

\* a text with a blank line, a heading, a line that trimming shortens and a
\* carriage return
C9_Witness ==
    /\ Imported
    /\ HeadingCount >= 1
    /\ Len(InputLines) > Len(NonBlankLines)
    /\ \E i \in DOMAIN NonBlankLines : trim(NonBlankLines[i]) # NonBlankLines[i]
    /\ \E i \in DOMAIN fileText : fileText[i] = "\r"
    /\ Len(AllSegments(Parsed)) >= 2

---------------------------------------------------------------------------
(* Translation and annotation: App.tsx, with the guards of the controls    *)
(* of ChapterList.tsx.  A Chapter[] array is copied shallowly by the       *)
(* handlers, so the copy and the original share their chapter and segment  *)
(* objects: an entry of docs stands for those objects, and every handler   *)
(* holding the entry's index sees the writes of the others.  The modal     *)
(* dialogs and the timer are written by the handlers and read by the       *)
(* render only; they are left out.                                         *)

\* r with r[k] = v, k added when r lacks it (assignment to an optional field)
SetField(r, k, v) == [f \in DOMAIN r \cup {k} |-> IF f = k THEN v ELSE r[f]]

\* seg.enText used as a condition: present and not the empty string
HasEnText(seg) == "enText" \in DOMAIN seg /\ seg.enText # <<>>

\* \w of a regular expression
IsWordChar(c) == IsLetter(c) \/ IsDigit(c) \/ c = "_"

\* index of the last letter of the run of letters that starts at i
RECURSIVE RunEnd(_, _)
RunEnd(text, i) ==
    IF i < Len(text) /\ IsLetter(text[i + 1]) THEN RunEnd(text, i + 1) ELSE i

\* text.match(/\b[a-zA-Z]+\b/g) || [], scanning from index i
RECURSIVE MatchWordsFrom(_, _)
MatchWordsFrom(text, i) ==
    IF i > Len(text) THEN <<>>
    ELSE IF ~IsLetter(text[i]) THEN MatchWordsFrom(text, i + 1)
    ELSE LET j == RunEnd(text, i)
             bounded == /\ (i = 1 \/ ~IsWordChar(text[i - 1]))
                        /\ (j = Len(text) \/ ~IsWordChar(text[j + 1]))
         IN  (IF bounded THEN <<SubSeq(text, i, j)>> ELSE <<>>)
                 \o MatchWordsFrom(text, j + 1)

\* a variant of the loop body that does not skip capitalized unknown words
AnalyzeWordKeepNames(st, w, db) ==
    LET lowerW == toLowerCase(w)
        level == getWordLevel(lowerW, db)
    IN  IF (level >= 3 \/ level = 99) /\ lowerW \notin st.uniqueCheck
        THEN [targetWords |-> Append(st.targetWords, [word |-> w, level |-> level]),
              uniqueCheck |-> st.uniqueCheck \cup {lowerW}]
        ELSE st

\* the body of words.forEach in analyzeTextForVocab
AnalyzeWord(st, w, db) ==
    LET lowerW == toLowerCase(w)
        level == getWordLevel(lowerW, db)
        isCapitalized == IsUpper(w[1])
    IN  IF level = 99 /\ isCapitalized THEN st
        ELSE IF (level >= 3 \/ level = 99) /\ lowerW \notin st.uniqueCheck
        THEN [targetWords |-> Append(st.targetWords, [word |-> w, level |-> level]),
              uniqueCheck |-> st.uniqueCheck \cup {lowerW}]
        ELSE st

RECURSIVE AnalyzeWords(_, _, _)
AnalyzeWords(st, words, db) ==
    IF words = <<>> THEN st
    ELSE AnalyzeWords(AnalyzeWord(st, Head(words), db), Tail(words), db)

analyzeTextForVocab(text, db) ==
    AnalyzeWords([targetWords |-> <<>>, uniqueCheck |-> {}],
                 MatchWordsFrom(text, 1), db).targetWords

\* chap.segments.find(s => s.id === id): the index of the segment, 0 for
\* undefined
find(segments, id) ==
    IF \E i \in DOMAIN segments : segments[i].id = id
    THEN CHOOSE i \in DOMAIN segments :
            /\ segments[i].id = id
            /\ \A j \in DOMAIN segments : j < i => segments[j].id # id
    ELSE 0

\* settings.apiKey is set
validateApiConfig == apiKey # <<>>

\* --- handleTranslateChapter ---

\* chapter.segments.filter(s => !s.isChapterHeader).map(s => s.text)
RECURSIVE segmentsToTrans(_)
segmentsToTrans(segments) ==
    IF segments = <<>> THEN <<>>
    ELSE (IF Head(segments).isChapterHeader THEN <<>> ELSE <<Head(segments).text>>)
             \o segmentsToTrans(Tail(segments))

\* segments.forEach(s => { if (!s.isChapterHeader) s.status = status; })
SetBodyStatus(segments, status) ==
    [i \in DOMAIN segments |->
        IF segments[i].isChapterHeader THEN segments[i]
        ELSE [segments[i] EXCEPT !.status = status]]

\* the loop that stores the translated texts, from segment i with counter tIdx
RECURSIVE StoreTranslations(_, _, _, _)
StoreTranslations(segments, i, translatedTexts, tIdx) ==
    IF i > Len(segments) THEN segments
    ELSE IF ~segments[i].isChapterHeader /\ tIdx < Len(translatedTexts)
    THEN StoreTranslations(
            [segments EXCEPT ![i] =
                SetField([@ EXCEPT !.status = "pending"], "enText",
                         translatedTexts[tIdx + 1])],
            i + 1, translatedTexts, tIdx + 1)
    ELSE StoreTranslations(segments, i + 1, translatedTexts, tIdx)

\* ChapterList: isTranslating for the chapter on display
isTranslating(index) ==
    /\ processingState # Null
    /\ processingState.type = "chapter"
    /\ processingState.id = index

\* ChapterList: isBatchProcessing
isBatchProcessing == processingState # Null /\ processingState.type = "batch"

\* calls without the k-th
RemoveCall(k) == [i \in 1..(Len(calls) - 1) |-> IF i < k THEN calls[i] ELSE calls[i + 1]]

MaxCalls == 2

\* handleTranslateChapter(index) up to its await; the button is offered for
\* a chapter that is not translated and is disabled while isTranslating
handleTranslateChapter(index) ==
    /\ chapters # 0
    /\ index + 1 \in DOMAIN Doc(chapters)
    /\ ~Doc(chapters)[index + 1].isTranslated
    /\ ~isTranslating(index)
    /\ validateApiConfig
    /\ segmentsToTrans(Doc(chapters)[index + 1].segments) # <<>>
    /\ Len(calls) < MaxCalls
    /\ processingState' = [type |-> "chapter", id |-> index]
    /\ docs' = [docs EXCEPT ![chapters][index + 1].segments =
                    SetBodyStatus(@, "translating")]
    /\ chapters' = chapters
    /\ calls' = Append(calls,
            [kind |-> "translate", newChapters |-> chapters,
             index |-> index, currentFileName |-> currentFileName])
    /\ UNCHANGED <<vocabDB, pdfItems, fileText, currentFileName, novelProgress,
                   apiKey, chunkVars, textVars>>

\* translateSegments resolved with translatedTexts: the rest of the try
\* block, then finally
TranslateResolved(k, translatedTexts) ==
    /\ k \in DOMAIN calls
    /\ calls[k].kind = "translate"
    /\ LET call == calls[k] IN
       \E chapter \in {[docs[call.newChapters][call.index + 1] EXCEPT
                          !.segments = StoreTranslations(@, 1, translatedTexts, 0),
                          !.isTranslated = TRUE]} :
        /\ docs' = Sweep([docs EXCEPT ![call.newChapters][call.index + 1] = chapter],
                          call.newChapters, RemoveCall(k))
        /\ chapters' = call.newChapters
        /\ novelProgress' = [fileName |-> call.currentFileName,
                             chapters |-> call.newChapters]
    /\ processingState' = Null
    /\ calls' = RemoveCall(k)
    /\ UNCHANGED <<vocabDB, pdfItems, fileText, currentFileName, apiKey, chunkVars, textVars>>

\* translateSegments rejected: catch, then finally
TranslateRejected(k) ==
    /\ k \in DOMAIN calls
    /\ calls[k].kind = "translate"
    /\ LET call == calls[k] IN
        /\ docs' = Sweep([docs EXCEPT ![call.newChapters][call.index + 1].segments =
                                SetBodyStatus(@, "error")],
                          call.newChapters, RemoveCall(k))
        /\ chapters' = call.newChapters
    /\ processingState' = Null
    /\ calls' = RemoveCall(k)
    /\ UNCHANGED <<vocabDB, pdfItems, fileText, currentFileName, novelProgress,
                   apiKey, chunkVars, textVars>>

\* --- handleGenerateNotes ---

\* preparing the payload: the id looked up in the chapters from the c-th on;
\* st holds the chapter objects (doc) and the payload built so far
RECURSIVE PrepareId(_, _, _, _)
PrepareId(st, c, id, db) ==
    IF c > Len(st.doc) THEN st
    ELSE LET segs == st.doc[c].segments
             i == find(segs, id)
         IN  IF i # 0 /\ HasEnText(segs[i])
             THEN PrepareId(
                    [doc |-> [st.doc EXCEPT ![c].segments[i].status = "processing"],
                     payload |-> Append(st.payload,
                        [id |-> segs[i].id, en |-> segs[i].enText,
                         focus_words |->
                            LET targets == analyzeTextForVocab(segs[i].enText, db)
                            IN  [t \in DOMAIN targets |-> targets[t].word]])],
                    c + 1, id, db)
             ELSE PrepareId(st, c + 1, id, db)

\* segmentIds.forEach(id => ...) of the preparation
RECURSIVE PreparePayload(_, _, _)
PreparePayload(st, segmentIds, db) ==
    IF segmentIds = <<>> THEN st
    ELSE PreparePayload(PrepareId(st, 1, Head(segmentIds), db), Tail(segmentIds), db)

\* one result stored into the chapters from the c-th on
RECURSIVE StoreResult(_, _, _)
StoreResult(doc, c, res) ==
    IF c > Len(doc) THEN doc
    ELSE LET i == find(doc[c].segments, res.id)
         IN  IF i # 0
             THEN StoreResult(
                    [doc EXCEPT ![c].segments[i] =
                        [SetField(@, "vocabResult", res) EXCEPT !.status = "done"]],
                    c + 1, res)
             ELSE StoreResult(doc, c + 1, res)

\* results.forEach(res => ...), the segment updates
RECURSIVE StoreResults(_, _)
StoreResults(doc, results) ==
    IF results = <<>> THEN doc
    ELSE StoreResults(StoreResult(doc, 1, Head(results)), Tail(results))

\* results.forEach(res => succeededIds.add(res.id))
succeededIdsOf(results) == {results[i].id : i \in DOMAIN results}

\* one failed payload entry marked in the chapters from the c-th on
RECURSIVE MarkFailedId(_, _, _)
MarkFailedId(doc, c, id) ==
    IF c > Len(doc) THEN doc
    ELSE LET i == find(doc[c].segments, id)
         IN  IF i # 0
             THEN MarkFailedId([doc EXCEPT ![c].segments[i].status = "error"], c + 1, id)
             ELSE MarkFailedId(doc, c + 1, id)

\* variant: one missing id fails every payload entry
RECURSIVE MarkFailedWholeBatch(_, _, _)
MarkFailedWholeBatch(doc, payload, succeededIds) ==
    IF \A p \in DOMAIN payload : payload[p].id \in succeededIds THEN doc
    ELSE MarkFailedWholeBatch(MarkFailedId(doc, 1, Head(payload).id), Tail(payload), {})

\* payload.forEach(p => { if (!succeededIds.has(p.id)) ... }), the segment
\* updates
RECURSIVE MarkFailed(_, _, _)
MarkFailed(doc, payload, succeededIds) ==
    IF payload = <<>> THEN doc
    ELSE MarkFailed(
            IF Head(payload).id \notin succeededIds
            THEN MarkFailedId(doc, 1, Head(payload).id)
            ELSE doc,
            Tail(payload), succeededIds)

\* catch: one id reverted in the chapters from the c-th on
RECURSIVE RevertId(_, _, _)
RevertId(doc, c, id) ==
    IF c > Len(doc) THEN doc
    ELSE LET i == find(doc[c].segments, id)
         IN  IF i # 0
             THEN RevertId([doc EXCEPT ![c].segments[i].status = "pending"], c + 1, id)
             ELSE RevertId(doc, c + 1, id)

\* catch: segmentIds.forEach(id => ...)
RECURSIVE RevertStatus(_, _)
RevertStatus(doc, segmentIds) ==
    IF segmentIds = <<>> THEN doc
    ELSE RevertStatus(RevertId(doc, 1, Head(segmentIds)), Tail(segmentIds))

BatchId == <<"b", "a", "t", "c", "h">>

\* handleGenerateNotes(segmentIds) up to its await; the button is offered
\* in a translated chapter and is disabled while isBatchProcessing
handleGenerateNotes(segmentIds) ==
    /\ chapters # 0
    /\ \E c \in DOMAIN Doc(chapters) : Doc(chapters)[c].isTranslated
    /\ ~isBatchProcessing
    /\ validateApiConfig
    /\ Len(calls) < MaxCalls
    /\ processingState' =
          [type |-> IF Len(segmentIds) > 1 THEN "batch" ELSE "segment",
           id |-> IF Len(segmentIds) = 1 THEN segmentIds[1] ELSE BatchId]
    /\ \E st \in {PreparePayload([doc |-> Doc(chapters), payload |-> <<>>],
                                 segmentIds, vocabDB)} :
        /\ docs' = [docs EXCEPT ![chapters] = st.doc]
        /\ calls' = Append(calls,
                [kind |-> "notes", newChapters |-> chapters,
                 segmentIds |-> segmentIds, payload |-> st.payload,
                 currentFileName |-> currentFileName])
    /\ chapters' = chapters
    /\ UNCHANGED <<vocabDB, pdfItems, fileText, currentFileName, novelProgress,
                   apiKey, chunkVars, textVars>>

\* generateVocabNotes resolved with results: the rest of the try block,
\* then finally
NotesResolved(k, results) ==
    /\ k \in DOMAIN calls
    /\ calls[k].kind = "notes"
    /\ LET call == calls[k] IN
       \E doc \in {MarkFailed(StoreResults(docs[call.newChapters], results),
                              call.payload, succeededIdsOf(results))} :
        /\ docs' = Sweep([docs EXCEPT ![call.newChapters] = doc],
                          call.newChapters, RemoveCall(k))
        /\ chapters' = call.newChapters
        /\ novelProgress' = [fileName |-> call.currentFileName,
                             chapters |-> call.newChapters]
    /\ processingState' = Null
    /\ calls' = RemoveCall(k)
    /\ UNCHANGED <<vocabDB, pdfItems, fileText, currentFileName, apiKey, chunkVars, textVars>>

\* generateVocabNotes rejected: catch, then finally
NotesRejected(k) ==
    /\ k \in DOMAIN calls
    /\ calls[k].kind = "notes"
    /\ LET call == calls[k] IN
        /\ docs' = Sweep([docs EXCEPT ![call.newChapters] =
                                RevertStatus(@, call.segmentIds)],
                          call.newChapters, RemoveCall(k))
        /\ chapters' = call.newChapters
    /\ processingState' = Null
    /\ calls' = RemoveCall(k)
    /\ UNCHANGED <<vocabDB, pdfItems, fileText, currentFileName, novelProgress,
                   apiKey, chunkVars, textVars>>

\* --- the other handlers that replace the chapter list ---

\* clearNovel, confirmed
clearNovel ==
    /\ chapters' = 0
    /\ docs' = Sweep(docs, 0, calls)
    /\ currentFileName' = <<>>
    /\ pdfItems' = <<>>
    /\ novelProgress' = Null
    /\ UNCHANGED <<vocabDB, fileText, asyncVars, chunkVars, textVars>>

\* --- inputs ---

\* a novel of one chapter: a heading and two paragraphs
N_chapter ==
    [name |-> <<"a">>,
     text |-> <<CJK_di, "1", CJK_zhang, "\n", "p", "\n", "q">>]
NovelFiles == {N_chapter}

\* what the translator may return for one paragraph
E_ran == <<"R", "a", "n">>
EnTexts == {E_ran}

\* what the annotator may return for one paragraph
VocabLists == {<<V_l3>>}

\* ids of all segments of a chapter array
SegmentIdsOf(doc) ==
    UNION {{doc[c].segments[i].id : i \in DOMAIN doc[c].segments} : c \in DOMAIN doc}

\* ids of all segments of a chapter array, in document order
RECURSIVE SegmentIdSeq(_)
SegmentIdSeq(doc) ==
    IF doc = <<>> THEN <<>>
    ELSE [i \in DOMAIN Head(doc).segments |-> Head(doc).segments[i].id]
            \o SegmentIdSeq(Tail(doc))

\* Array.from of a non-empty selection of check boxes ticked from the top
\* of the document to its end
Selections(doc) ==
    LET all == SegmentIdSeq(doc) IN
    {SelectSeq(all, LAMBDA id : id \in ticked) :
        ticked \in (SUBSET SegmentIdsOf(doc)) \ {{}}}

\* the answers generateVocabNotes may resolve with for a call on doc
ResultsFor(call) ==
    SeqUpTo([id : SegmentIdsOf(docs[call.newChapters]), vocab : VocabLists],
            IF Len(call.payload) > 1 THEN Len(call.payload) ELSE 1)

\* the answers translateSegments may resolve with
TranslationsFor(call) ==
    SeqUpTo(EnTexts,
            Len(segmentsToTrans(docs[call.newChapters][call.index + 1].segments)))

K_key == <<"k">>

InitApp ==
    /\ apiKey \in {<<>>, K_key}
    /\ vocabDB = SampleDB
    /\ pdfItems = <<>>
    /\ docs = <<>>
    /\ chapters = 0
    /\ fileText = <<>>
    /\ currentFileName = <<>>
    /\ novelProgress = Null
    /\ processingState = Null
    /\ argument = <<>>
    /\ callee = "none"
    /\ returned = Null
    /\ calls = <<>>
    /\ chunks = <<>>
    /\ currentBatch = <<>>
    /\ accTextH = 0
    /\ accCardH = 0
    /\ pos = 0
    /\ pcChunk = "idle"
    /\ processedGroups = <<>>
    /\ renders = 0

ImportNovel ==
    /\ \E file \in NovelFiles : handleNovelImport(file)
    /\ UNCHANGED <<vocabDB, pdfItems, asyncVars, chunkVars, textVars>>

ClearNovel == clearNovel

TranslateChapter ==
    \E index \in {c - 1 : c \in DOMAIN Doc(chapters)} : handleTranslateChapter(index)

TranslateReturns ==
    \E k \in DOMAIN calls :
        /\ calls[k].kind = "translate"
        /\ \E translatedTexts \in TranslationsFor(calls[k]) :
                TranslateResolved(k, translatedTexts)

TranslateThrows == \E k \in DOMAIN calls : TranslateRejected(k)

GenerateNotes ==
    /\ chapters # 0
    /\ \E segmentIds \in Selections(Doc(chapters)) :
            handleGenerateNotes(segmentIds)

NotesReturn ==
    \E k \in DOMAIN calls :
        /\ calls[k].kind = "notes"
        /\ \E results \in ResultsFor(calls[k]) : NotesResolved(k, results)

NotesThrow == \E k \in DOMAIN calls : NotesRejected(k)

NextApp ==
    \/ ImportNovel
    \/ ClearNovel
    \/ TranslateChapter
    \/ TranslateReturns
    \/ TranslateThrows
    \/ GenerateNotes
    \/ NotesReturn
    \/ NotesThrow

SpecApp == InitApp /\ [][NextApp]_vars

---------------------------------------------------------------------------
(* Properties of the annotation handler                                    *)

\* the ids of the request payload
PayloadIds(call) == {call.payload[p].id : p \in DOMAIN call.payload}

\* the entry of the response that is stored last for id
LastResultFor(results, id) ==
    results[CHOOSE i \in DOMAIN results :
                /\ results[i].id = id
                /\ \A j \in DOMAIN results : results[j].id = id => j <= i]

\* the segments of doc that carry id
SegmentsWithId(doc, id) ==
    {doc[c].segments[i] : <<c, i>> \in
        {<<c, i>> \in (DOMAIN doc) \X (1..Len(SegmentIdSeq(doc))) :
            i \in DOMAIN doc[c].segments /\ doc[c].segments[i].id = id}}

\* what the requested segments look like once the response is applied
PartialOutcome(doc, call, results) ==
    \A id \in PayloadIds(call) :
        /\ SegmentsWithId(doc, id) # {}
        /\ \A seg \in SegmentsWithId(doc, id) :
            IF id \in succeededIdsOf(results)
            THEN /\ seg.status = "done"
                 /\ "vocabResult" \in DOMAIN seg
                 /\ seg.vocabResult = LastResultFor(results, id)
            ELSE seg.status = "error"

\* C10: when generateVocabNotes resolves with results for a subset of the
\* ids of the request payload, the step that applies the response leaves
\* every requested segment whose id is in the response with status 'done'
\* and that response entry as its vocabResult, and every requested segment
\* whose id is missing with status 'error'; a missing id therefore never
\* alters what a sibling that succeeded ends up with.
C10_PartialResponse ==
    [][\A k \in DOMAIN calls :
        calls[k].kind = "notes" =>
            \A results \in ResultsFor(calls[k]) :
                (/\ succeededIdsOf(results) \subseteq PayloadIds(calls[k])
                 /\ NotesResolved(k, results))
                => PartialOutcome(docs'[calls[k].newChapters], calls[k], results)]_vars

\* a response was applied in which one paragraph succeeded and its sibling
\* was missing: nothing is in flight, one translated paragraph is 'done'
\* with its own result, the other is 'error' and carries no result
C10_Witness ==
    /\ calls = <<>>
    /\ chapters # 0
    /\ \E c \in DOMAIN Doc(chapters) :
        \E i, j \in DOMAIN Doc(chapters)[c].segments :
            LET a == Doc(chapters)[c].segments[i]
                b == Doc(chapters)[c].segments[j]
            IN  /\ i # j
                /\ HasEnText(a) /\ HasEnText(b)
                /\ a.status = "done"
                /\ "vocabResult" \in DOMAIN a /\ a.vocabResult.id = a.id
                /\ b.status = "error"
                /\ "vocabResult" \notin DOMAIN b

---------------------------------------------------------------------------
(* Properties of the translation handler                                   *)

\* C11: in every reachable state, each chapter of the chapter list that has
\* isTranslated = true has translated text on every one of its non-header
\* segments (so a translator answer with fewer texts than non-header
\* segments would not set isTranslated).
C11_AsClaimed ==
    \A c \in DOMAIN Doc(chapters) :
        Doc(chapters)[c].isTranslated =>
            \A i \in DOMAIN Doc(chapters)[c].segments :
                LET seg == Doc(chapters)[c].segments[i]
                IN  ~seg.isChapterHeader => HasEnText(seg)

---------------------------------------------------------------------------
(* One call of a function of utils/textProcessing.ts on a given string.    *)

\* the call returns value
Returns(fn, value) ==
    /\ callee = "none"
    /\ callee' = fn
    /\ returned' = [value |-> value]
    /\ UNCHANGED <<argument, vocabDB, pdfItems, novelVars, asyncVars, chunkVars>>

\* everything but the argument and the vocabulary at rest
IdleBut ==
    /\ callee = "none"
    /\ returned = Null
    /\ pdfItems = <<>>
    /\ docs = <<>>
    /\ chapters = 0
    /\ fileText = <<>>
    /\ currentFileName = <<>>
    /\ novelProgress = Null
    /\ apiKey = <<>>
    /\ processingState = Null
    /\ calls = <<>>
    /\ chunks = <<>>
    /\ currentBatch = <<>>
    /\ accTextH = 0
    /\ accCardH = 0
    /\ pos = 0
    /\ pcChunk = "idle"
    /\ processedGroups = <<>>
    /\ renders = 0

---------------------------------------------------------------------------
(* getWordLevel                                                            *)

W_ran == <<"r","a","n">>
W_went == <<"w","e","n","t">>
W_happily == <<"h","a","p","p","i","l","y">>
W_quickly == <<"q","u","i","c","k","l","y">>

\* tokens: empty, one letter, letters among other characters, capitals,
\* plain, inflected and irregular forms, a word of no tier
TokenUniverse ==
    {<<>>, <<"a">>, <<"I">>, <<"-">>, <<"7">>, <<"a", "1">>, <<"1", "a", "-">>,
     <<"g", "o">>, <<"G", "o", "!">>, <<"r", "-", "u", "n">>, <<"R", "U", "N">>,
     W_the, W_run, W_running, W_ran, W_went, W_happy, W_happily, W_quick,
     W_quickly, W_xyzzy}

\* tiers a word of TierChoices may be filed under
TierChoices == {{}, {1}, {3}, {4}, {6}, {1, 4}, {3, 6}, {4, 6}}

\* a vocabulary with "run" in the tiers a, "running" in the tiers b, "ran"
\* in the tiers c and "happily" in the tiers d, next to the words of SampleDB
DbOf(a, b, c, d) ==
    [i \in Tiers |->
        (SampleDB[i] \ {W_run})
            \cup (IF i \in a THEN {W_run} ELSE {})
            \cup (IF i \in b THEN {W_running} ELSE {})
            \cup (IF i \in c THEN {W_ran} ELSE {})
            \cup (IF i \in d THEN {W_happily} ELSE {})]

DbUniverse ==
    {EmptyDB} \cup {DbOf(a, b, c, d) : a \in TierChoices, b \in TierChoices,
                                       c \in {{}, {2}, {5, 6}}, d \in {{}, {6}}}

CallGetWordLevel == Returns("getWordLevel", getWordLevel(argument, vocabDB))

InitClassify ==
    /\ argument \in TokenUniverse
    /\ vocabDB \in DbUniverse
    /\ IdleBut

NextClassify == CallGetWordLevel

SpecClassify == InitClassify /\ [][NextClassify]_vars

\* the token with every non-letter removed, in lower case
CleanToken == toLowerCase(SelectSeq(argument, IsLetter))

\* the tiers that hold w
TiersHolding(w) == {i \in Tiers : w \in vocabDB[i]}

\* the least element of a non-empty set of numbers
Least(S) == CHOOSE x \in S : \A y \in S : x <= y

\* C12: getWordLevel returns one of 0, 1, ..., 6, 99, and returns 0 exactly
\* when the token, stripped of every non-letter, has fewer than two letters.
C12_LevelRange ==
    callee = "getWordLevel" =>
        /\ returned.value \in (0..6) \cup {99}
        /\ (returned.value = 0) <=> (Len(SelectSeq(argument, IsLetter)) < 2)

\* a token of two or more characters with fewer than two letters was
\* classified 0 against a vocabulary that is not empty
C12_Witness ==
    /\ callee = "getWordLevel"
    /\ Len(argument) >= 2
    /\ Len(SelectSeq(argument, IsLetter)) = 1
    /\ vocabDB # EmptyDB
    /\ returned.value = 0

\* C13: when the cleaned lower-case token is in some tier, getWordLevel
\* returns the lowest tier holding it, whatever tier its lemma is in; when it
\* is in no tier and its lemma is in some tier, getWordLevel returns the
\* lowest tier holding the lemma.
C13_LowestTier ==
    callee = "getWordLevel" =>
        LET lemma == getLemma(CleanToken, vocabDB) IN
        /\ TiersHolding(CleanToken) # {}
            => returned.value = Least(TiersHolding(CleanToken))
        /\ (TiersHolding(CleanToken) = {} /\ TiersHolding(lemma) # {})
            => returned.value = Least(TiersHolding(lemma))

\* a token filed under two tiers, with its lemma under a tier lower than
\* both, was classified by its own lowest tier
C13_Witness ==
    /\ callee = "getWordLevel"
    /\ Cardinality(TiersHolding(CleanToken)) >= 2
    /\ getLemma(CleanToken, vocabDB) # CleanToken
    /\ TiersHolding(getLemma(CleanToken, vocabDB)) # {}
    /\ Least(TiersHolding(getLemma(CleanToken, vocabDB))) < Least(TiersHolding(CleanToken))
    /\ returned.value = Least(TiersHolding(CleanToken))

\* C14: getWordLevel("running", db) returns 3 when tier 3 of db holds
\* "run", no tier holds "running", and the irregular-form table has no
\* entry for "running".
C14_AsClaimed ==
    (/\ callee = "getWordLevel"
     /\ argument = W_running
     /\ W_run \in vocabDB[3]
     /\ TiersHolding(W_running) = {}
     /\ W_running \notin DOMAIN IRREGULAR_VERBS)
    => returned.value = 3

---------------------------------------------------------------------------
(* analyzeTextForVocab                                                     *)

MaxWords == 3

W_Run == <<"R","u","n">>
W_Xyzzy == <<"X","y","z","z","y">>
W_Happy == <<"H","a","p","p","y">>
W_x_run == <<"x","-","r","u","n">>
W_go2 == <<"g","o","2">>

\* the words a sentence is made of: of tier 1, 2, 3 and 4 and of no tier,
\* capitalized or not, a hyphenated pair and a word that ends in a digit
SentenceWords ==
    {W_the, W_go, W_run, W_Run, W_Happy, W_xyzzy, W_Xyzzy, W_x_run, W_go2}

\* the words separated by ", " and closed by "."
RECURSIVE Sentence(_)
Sentence(words) ==
    IF words = <<>> THEN <<".">>
    ELSE IF Len(words) = 1 THEN Head(words) \o <<".">>
    ELSE Head(words) \o <<",", " ">> \o Sentence(Tail(words))

SentenceUniverse == {Sentence(ws) : ws \in SeqUpTo(SentenceWords, MaxWords)}

CallAnalyzeTextForVocab ==
    Returns("analyzeTextForVocab", analyzeTextForVocab(argument, vocabDB))

InitExtract ==
    /\ argument \in SentenceUniverse
    /\ vocabDB \in {EmptyDB, SampleDB}
    /\ IdleBut

NextExtract == CallAnalyzeTextForVocab

SpecExtract == InitExtract /\ [][NextExtract]_vars

\* the words of the sentence, in order
Occurrences == MatchWordsFrom(argument, 1)

\* the lower-case forms that occur
FormsOccurring == {toLowerCase(Occurrences[k]) : k \in DOMAIN Occurrences}

\* position of the first occurrence of the lower-case form w
FirstOccurrence(w) ==
    Least({k \in DOMAIN Occurrences : toLowerCase(Occurrences[k]) = w})

\* C15: the entries analyzeTextForVocab returns are unique by lower-case
\* form and ordered by the position of each word's first occurrence in the
\* sentence, also when a word occurs first capitalized and later in lower
\* case.
C15_AsClaimed ==
    callee = "analyzeTextForVocab" =>
        LET out == returned.value IN
        \A i, j \in DOMAIN out :
            i < j =>
                /\ toLowerCase(out[i].word) # toLowerCase(out[j].word)
                /\ FirstOccurrence(toLowerCase(out[i].word))
                        < FirstOccurrence(toLowerCase(out[j].word))

\* the lower-case forms of the entries returned
FormsReturned ==
    {toLowerCase(returned.value[i].word) : i \in DOMAIN returned.value}

\* some occurrence of the form w does not start with an upper-case letter
OccursUncapitalized(w) ==
    \E k \in DOMAIN Occurrences :
        toLowerCase(Occurrences[k]) = w /\ ~IsUpper(Occurrences[k][1])

\* C16: a word is in the result of analyzeTextForVocab exactly when its tier
\* is in 3..6, or its tier is 99 and some occurrence of it does not start
\* with an upper-case letter; every entry carries the tier of its word, so
\* none has level 0, 1 or 2, and an unknown word that occurs only capitalized
\* is never returned.
C16_Emitted ==
    callee = "analyzeTextForVocab" =>
        /\ FormsReturned \subseteq FormsOccurring
        /\ \A w \in FormsOccurring :
               w \in FormsReturned <=>
                   \/ getWordLevel(w, vocabDB) \in 3..6
                   \/ getWordLevel(w, vocabDB) = 99 /\ OccursUncapitalized(w)
        /\ \A i \in DOMAIN returned.value :
               /\ returned.value[i].level
                      = getWordLevel(toLowerCase(returned.value[i].word), vocabDB)
               /\ returned.value[i].level \notin {0, 1, 2}

\* a sentence with a word of a low tier, an unknown word that is only
\* capitalized and is left out, and a capitalized word of tier 3 that is kept
C16_Witness ==
    /\ callee = "analyzeTextForVocab"
    /\ W_xyzzy \in FormsOccurring
    /\ getWordLevel(W_xyzzy, vocabDB) = 99
    /\ ~OccursUncapitalized(W_xyzzy)
    /\ W_xyzzy \notin FormsReturned
    /\ W_the \in FormsOccurring /\ W_the \notin FormsReturned
    /\ returned.value = <<[word |-> W_Run, level |-> 3]>>

---------------------------------------------------------------------------
(* chineseToNumber                                                         *)

\* the keys of map whose value is below 10, with their values
NumeralDigitValue(c) ==
    IF IsDigit(c) THEN DigitVal(c)
    ELSE IF c \in {CJK_ling, CJK_lingCircle} THEN 0
    ELSE IF c = CJK_yi THEN 1
    ELSE IF c \in {CJK_er, CJK_liang} THEN 2
    ELSE IF c = CJK_san THEN 3
    ELSE IF c = CJK_si THEN 4
    ELSE IF c = CJK_wu THEN 5
    ELSE IF c = CJK_liu THEN 6
    ELSE IF c = CJK_qi THEN 7
    ELSE IF c = CJK_ba THEN 8
    ELSE 9

NumeralDigitKeys ==
    DigitSet \cup {CJK_ling, CJK_lingCircle, CJK_yi, CJK_er, CJK_liang, CJK_san,
                   CJK_si, CJK_wu, CJK_liu, CJK_qi, CJK_ba, CJK_jiu}

NumeralUnitKeys == {CJK_shi, CJK_bai, CJK_qian}

\* map[char] for a key of map
NumeralMap(c) ==
    IF c = CJK_shi THEN 10
    ELSE IF c = CJK_bai THEN 100
    ELSE IF c = CJK_qian THEN 1000
    ELSE NumeralDigitValue(c)

\* Number.prototype.toString for an integer n >= 0
RECURSIVE numberToString(_)
numberToString(n) ==
    IF n < 10 THEN <<Digits[n + 1]>>
    ELSE Append(numberToString(n \div 10), Digits[(n % 10) + 1])

\* /^\d+$/.test(cn)
IsDigitString(cn) == cn # <<>> /\ \A i \in DOMAIN cn : IsDigit(cn[i])

\* the loop body with the leading-ten line left out
NumeralStepNoLeadingTen(st, char) ==
    IF char \notin NumeralDigitKeys \cup NumeralUnitKeys THEN st
    ELSE LET val == NumeralMap(char) IN
         IF val >= 10
         THEN [result |-> st.result + st.current * val, current |-> 0,
               hasUnit |-> TRUE]
         ELSE [st EXCEPT !.current = val]

\* the body of the for loop of chineseToNumber
NumeralStep(st, char) ==
    IF char \notin NumeralDigitKeys \cup NumeralUnitKeys THEN st
    ELSE LET val == NumeralMap(char) IN
         IF val >= 10
         THEN LET current == IF st.current = 0 /\ ~st.hasUnit /\ val = 10
                             THEN 1 ELSE st.current
              IN  [result |-> st.result + current * val, current |-> 0,
                   hasUnit |-> TRUE]
         ELSE [st EXCEPT !.current = val]

RECURSIVE NumeralLoop(_, _)
NumeralLoop(st, cn) ==
    IF cn = <<>> THEN st ELSE NumeralLoop(NumeralStep(st, Head(cn)), Tail(cn))

chineseToNumber(cn) ==
    IF IsDigitString(cn) THEN cn
    ELSE LET st == NumeralLoop([result |-> 0, current |-> 0, hasUnit |-> FALSE], cn)
         IN  numberToString(st.result + st.current)

\* --- the standard numerals of 1..9999 ---

NumeralValues == 1..9999

MaxDigits == 3

CjkDigits == <<CJK_yi, CJK_er, CJK_san, CJK_si, CJK_wu, CJK_liu, CJK_qi,
               CJK_ba, CJK_jiu>>

\* the ones: nothing for 0
OnesPart(n) == IF n = 0 THEN <<>> ELSE <<CjkDigits[n]>>

\* n in 1..99; ten to nineteen open with the bare ten only when leading
Below100(n, leading) ==
    IF n < 10 THEN OnesPart(n)
    ELSE IF n < 20 /\ leading THEN <<CJK_shi>> \o OnesPart(n - 10)
    ELSE <<CjkDigits[n \div 10], CJK_shi>> \o OnesPart(n % 10)

\* n in 100..999; a skipped tens place is held by ling
Below1000(n) ==
    <<CjkDigits[n \div 100], CJK_bai>> \o
        (IF n % 100 = 0 THEN <<>>
         ELSE IF n % 100 < 10 THEN <<CJK_ling>> \o OnesPart(n % 100)
         ELSE Below100(n % 100, FALSE))

Numeral(n) ==
    IF n < 100 THEN Below100(n, TRUE)
    ELSE IF n < 1000 THEN Below1000(n)
    ELSE <<CjkDigits[n \div 1000], CJK_qian>> \o
            (IF n % 1000 = 0 THEN <<>>
             ELSE IF n % 1000 < 100 THEN <<CJK_ling>> \o Below100(n % 1000, FALSE)
             ELSE Below1000(n % 1000))

StandardNumerals == {Numeral(n) : n \in NumeralValues}

DigitStrings == SeqUpTo(DigitSet, MaxDigits) \ {<<>>}

CallChineseToNumber == Returns("chineseToNumber", chineseToNumber(argument))

InitNumeral ==
    /\ argument \in StandardNumerals \cup DigitStrings
    /\ vocabDB = EmptyDB
    /\ IdleBut

NextNumeral == CallChineseToNumber

SpecNumeral == InitNumeral /\ [][NextNumeral]_vars

\* the number a string of ASCII digits writes
RECURSIVE DecimalValue(_)
DecimalValue(s) ==
    IF s = <<>> THEN 0 ELSE 10 * DecimalValue(DropLast(s, 1)) + DigitVal(s[Len(s)])

\* C17: for the standard numeral of every n in 1..9999 chineseToNumber
\* returns the decimal string of n (the string returned writes, without
\* leading zeros, a number of 1..9999 whose standard numeral is the
\* argument), as in 123, 12, 10 and 5; a string of ASCII digits is returned
\* unchanged.
C17_Converts ==
    callee = "chineseToNumber" =>
        /\ argument \in StandardNumerals =>
               /\ IsDigitString(returned.value)
               /\ DecimalValue(returned.value) \in NumeralValues
               /\ numberToString(DecimalValue(returned.value)) = returned.value
               /\ Numeral(DecimalValue(returned.value)) = argument
        /\ argument = <<CJK_yi, CJK_bai, CJK_er, CJK_shi, CJK_san>> =>
               returned.value = <<"1", "2", "3">>
        /\ argument = <<CJK_shi, CJK_er>> => returned.value = <<"1", "2">>
        /\ argument = <<CJK_shi>> => returned.value = <<"1", "0">>
        /\ argument = <<CJK_wu>> => returned.value = <<"5">>
        /\ IsDigitString(argument) => returned.value = argument

\* a numeral with a placeholder and an inner ten has been converted
C17_Witness ==
    /\ callee = "chineseToNumber"
    /\ argument = <<CJK_yi, CJK_qian, CJK_ling, CJK_yi, CJK_shi, CJK_er>>
    /\ argument = Numeral(1012)
    /\ returned.value = <<"1", "0", "1", "2">>

---------------------------------------------------------------------------
(* formatChapterTitle                                                      *)

S_Chapter == <<"C","h","a","p","t","e","r">>
S_ChapterSp == <<"C","h","a","p","t","e","r"," ">>
S_Prologue == <<"P","r","o","l","o","g","u","e">>
S_Epilogue == <<"E","p","i","l","o","g","u","e">>
S_Introduction == <<"I","n","t","r","o","d","u","c","t","i","o","n">>

\* the characters the pattern's . does not match
LineTerminators == {"\n", "\r", "U+2028", "U+2029"}

\* what is left of s from its first line terminator on
RECURSIVE FromLineTerminator(_)
FromLineTerminator(s) ==
    IF s = <<>> \/ Head(s) \in LineTerminators THEN s
    ELSE FromLineTerminator(Tail(s))

\* what follows ^Chapter\s*\.?\s* under the i flag, when title starts so
AfterChapterWord(title) ==
    LET r1 == SkipSpaces(DropFirst(title, Len(S_Chapter)))
    IN  IF r1 # <<>> /\ Head(r1) = "." THEN SkipSpaces(Tail(r1)) ELSE r1

\* /^Chapter\s*\.?\s*(\d+)/i.test(title)
IsLatinTitle(title) ==
    /\ startsWithIgnoreCase(title, S_Chapter)
    /\ RunLength(AfterChapterWord(title), DigitSet) >= 1

\* title.replace(/^Chapter\s*\.?\s*(\d+).*/i, "Chapter $1") for a title the
\* pattern matches: (\d+) takes the whole run of digits, .* the rest of
\* the line
ReplaceLatinTitle(title) ==
    LET r == AfterChapterWord(title)
        n == RunLength(r, DigitSet)
    IN  S_ChapterSp \o SubSeq(r, 1, n) \o FromLineTerminator(DropFirst(r, n))

\* [zhang juan]
TitleUnits == {CJK_zhang, CJK_juan}

\* what follows ^di\s*, when title starts with di
AfterDi(title) == SkipSpaces(Tail(title))

\* title.match(/^di\s*([numerals]+)\s*[zhang juan]/) is not null
IsCjkTitle(title) ==
    /\ title # <<>>
    /\ Head(title) = CJK_di
    /\ LET r == AfterDi(title)
           n == RunLength(r, HeadingNumerals)
           u == SkipSpaces(DropFirst(r, n))
       IN  n >= 1 /\ u # <<>> /\ Head(u) \in TitleUnits

\* match[1]
CjkTitleNumPart(title) ==
    SubSeq(AfterDi(title), 1, RunLength(AfterDi(title), HeadingNumerals))

\* an unanchored search for word under the i flag
RECURSIVE ContainsIgnoreCase(_, _)
ContainsIgnoreCase(s, word) ==
    IF Len(s) < Len(word) THEN FALSE
    ELSE startsWithIgnoreCase(s, word) \/ ContainsIgnoreCase(Tail(s), word)

\* /xu[zhang yan]?|Introduction|Prologue/i.test(title)
IsPrologueTitle(title) ==
    \/ ContainsIgnoreCase(title, <<CJK_xu>>)
    \/ ContainsIgnoreCase(title, S_Introduction)
    \/ ContainsIgnoreCase(title, S_Prologue)

\* /weisheng|weisheng (trad.)|Epilogue/i.test(title)
IsEpilogueTitle(title) ==
    \/ ContainsIgnoreCase(title, <<CJK_wei, CJK_sheng>>)
    \/ ContainsIgnoreCase(title, <<CJK_wei, CJK_shengTrad>>)
    \/ ContainsIgnoreCase(title, S_Epilogue)

\* a variant that emits the numeral of a CJK heading as it stands
formatChapterTitleRawNumeral(title) ==
    IF IsLatinTitle(title) THEN ReplaceLatinTitle(title)
    ELSE IF IsCjkTitle(title) THEN S_ChapterSp \o CjkTitleNumPart(title)
    ELSE IF IsPrologueTitle(title) THEN S_Prologue
    ELSE IF IsEpilogueTitle(title) THEN S_Epilogue
    ELSE title

\* a variant whose fallback is the bare word
formatChapterTitleBareFallback(title) ==
    IF IsLatinTitle(title) THEN ReplaceLatinTitle(title)
    ELSE IF IsCjkTitle(title)
         THEN S_ChapterSp \o chineseToNumber(CjkTitleNumPart(title))
    ELSE IF IsPrologueTitle(title) THEN S_Prologue
    ELSE IF IsEpilogueTitle(title) THEN S_Epilogue
    ELSE S_Chapter

formatChapterTitle(title) ==
    IF IsLatinTitle(title) THEN ReplaceLatinTitle(title)
    ELSE IF IsCjkTitle(title)
         THEN S_ChapterSp \o chineseToNumber(CjkTitleNumPart(title))
    ELSE IF IsPrologueTitle(title) THEN S_Prologue
    ELSE IF IsEpilogueTitle(title) THEN S_Epilogue
    ELSE title

\* --- headings ---

\* the word Chapter in three spellings
ChapterWords ==
    {S_Chapter, <<"C","H","A","P","T","E","R">>, <<"c","h","a","p","t","e","r">>}

\* between the word and the number: nothing, blanks, a period
ChapterGaps == {<<>>, <<" ">>, <<".">>, <<".", " ">>, <<" ", ".", " ">>, <<" ", " ">>}

ChapterNumbers == {<<"1">>, <<"1", "2">>, <<"0", "0", "7">>}

T_theEnd == <<" ","T","h","e"," ","E","n","d">>
T_cjkForm == <<":", " ", CJK_di, CJK_er, CJK_zhang>>
T_prologue == <<" ", CJK_xu, CJK_yan>>
T_latinForm == <<" ","C","h","a","p","t","e","r"," ","5">>
T_nextLine == <<"\r","I","t"," ","w","a","s">>

\* what follows the number of a Latin heading: nothing, punctuation, text,
\* a CJK heading, and the next line of a text whose lines end in a lone
\* carriage return, which text.split(/\r?\n/) does not cut
LatinTrailers ==
    {<<>>, <<".">>, <<":">>, <<"-", "2">>, <<" ", "3">>, T_theEnd, T_cjkForm,
     T_nextLine}

LatinHeadings ==
    {w \o g \o n \o t :
        w \in ChapterWords, g \in ChapterGaps, n \in ChapterNumbers,
        t \in LatinTrailers}

\* numerals of ASCII digits, of CJK digits and magnitudes, and of both
TitleNumerals ==
    {<<"1">>, <<"1", "2">>, <<CJK_yi>>, <<CJK_shi>>, <<CJK_shi, CJK_er>>,
     <<CJK_er, CJK_shi>>, <<CJK_yi, CJK_bai, CJK_er, CJK_shi, CJK_san>>,
     <<CJK_yi, CJK_qian, CJK_ling, CJK_wu>>, <<CJK_ling>>, <<CJK_bai>>,
     <<"1", CJK_er>>}

CjkTrailers == {<<>>, <<":">>, T_theEnd, T_prologue, T_latinForm, T_nextLine}

CjkHeadings ==
    {<<CJK_di>> \o n \o <<u>> \o t :
        n \in TitleNumerals, u \in TitleUnits, t \in CjkTrailers}

\* headings of neither numbered form
OtherHeadings ==
    {<<>>, S_Prologue, S_Epilogue, S_Introduction, <<CJK_xu, CJK_zhang>>,
     <<CJK_wei, CJK_sheng>>, <<CJK_wei, CJK_shengTrad>>,
     <<"C","h","a","p","t","e","r"," ","I","V">>,
     <<"P","a","r","t"," ","1">>,
     <<CJK_di, CJK_yi, CJK_hui>>, <<CJK_di, CJK_liang, CJK_zhang>>,
     <<CJK_di, " ", CJK_yi, " ", CJK_zhang>>,
     <<CJK_fan, CJK_wai>>, <<"p","l","a","i","n">>}

T_chapterIV == <<"C","h","a","p","t","e","r"," ","I","V">>

\* headings none of the four rules matches: empty, plain text, a Roman
\* number, other Latin keywords, the word Chapter alone or late in the
\* line, CJK headings with another unit, with liang, or without a numeral,
\* and named sections that are neither prologue nor epilogue
UnmatchedHeadings ==
    {<<>>, <<"p","l","a","i","n">>, T_chapterIV, <<"P","a","r","t"," ","1">>,
     <<"V","o","l",".","1">>, S_Chapter, <<"M","y"," ">> \o S_ChapterSp \o <<"1">>,
     <<"C","h","a","p","t","e","r",":"," ","1">>,
     <<CJK_di, CJK_yi, CJK_hui>>, <<CJK_di, CJK_liang, CJK_zhang>>,
     <<CJK_di, CJK_zhang>>, <<CJK_yi, CJK_zhang>>,
     <<CJK_xie, CJK_zi>>, <<CJK_fan, CJK_wai>>, <<CJK_hou, CJK_ji>>,
     <<CJK_wei>>, <<" ", "\r", "x">>}

HeadingUniverse ==
    LatinHeadings \cup CjkHeadings \cup OtherHeadings \cup UnmatchedHeadings

CallFormatChapterTitle ==
    Returns("formatChapterTitle", formatChapterTitle(argument))

InitTitle ==
    /\ argument \in HeadingUniverse
    /\ vocabDB = EmptyDB
    /\ IdleBut

NextTitle == CallFormatChapterTitle

SpecTitle == InitTitle /\ [][NextTitle]_vars

\* C18: for every heading made of the word Chapter in any letter case, an
\* optional period and optional blanks, a digit string N and any trailing
\* text or punctuation, formatChapterTitle returns exactly "Chapter N".
C18_AsClaimed ==
    callee = "formatChapterTitle" =>
        \A w \in ChapterWords, g \in ChapterGaps, n \in ChapterNumbers,
           t \in LatinTrailers :
            argument = w \o g \o n \o t => returned.value = S_ChapterSp \o n

\* C19: for every heading di <numeral> <unit> with unit zhang or juan, a
\* numeral of ASCII digits or CJK digits and magnitudes and any text after
\* the unit, formatChapterTitle returns "Chapter " followed by
\* chineseToNumber(numeral); a heading of the Latin form is handled by the
\* Latin rule, which is tested first, also when a CJK heading follows in it.
C19_CjkTitle ==
    callee = "formatChapterTitle" =>
        /\ \A n \in TitleNumerals, u \in TitleUnits, t \in CjkTrailers :
               argument = <<CJK_di>> \o n \o <<u>> \o t =>
                   returned.value = S_ChapterSp \o chineseToNumber(n)
        /\ \A w \in ChapterWords, g \in ChapterGaps, n \in ChapterNumbers,
              t \in LatinTrailers :
               argument = w \o g \o n \o t =>
                   startsWith(returned.value, S_ChapterSp \o n)

\* a CJK heading with a numeral in words and a Latin heading after its unit
\* has been formatted
C19_Witness ==
    /\ callee = "formatChapterTitle"
    /\ argument = <<CJK_di, CJK_yi, CJK_bai, CJK_er, CJK_shi, CJK_san, CJK_juan>>
                      \o T_latinForm
    /\ returned.value = <<"C","h","a","p","t","e","r"," ","1","2","3">>

---------------------------------------------------------------------------
(* The print-item sequence: App.tsx                                        *)

MaxPdfItems == 4

\* seg.enText, seg.vocabResult?.vocab: undefined when the field is absent
EnTextOf(seg) == IF "enText" \in DOMAIN seg THEN seg.enText ELSE Null
VocabOf(seg) ==
    IF "vocabResult" \in DOMAIN seg THEN seg.vocabResult.vocab ELSE Null

\* the item addToPdfState(isHeader, cn, en, vocab) pushes
PdfItemOf(isHeader, cn, en, vocab) ==
    IF isHeader THEN Header(cn) ELSE Content(cn, en, vocab)

\* addToPdfState: the updater of setPdfItems
addToPdfState(prev, isHeader, cn, en, vocab) ==
    Append(prev, PdfItemOf(isHeader, cn, en, vocab))

\* (variant: every segment found is added, whatever its status)
RECURSIVE BatchAddIdAnyStatus(_, _, _, _)
BatchAddIdAnyStatus(items, doc, c, id) ==
    IF c > Len(doc) THEN items
    ELSE LET i == find(doc[c].segments, id)
             seg == doc[c].segments[i]
         IN  IF i # 0
             THEN BatchAddIdAnyStatus(
                    addToPdfState(items, seg.isChapterHeader, seg.text,
                                  EnTextOf(seg), VocabOf(seg)),
                    doc, c + 1, id)
             ELSE BatchAddIdAnyStatus(items, doc, c + 1, id)

\* for (const chap of chapters) in handleBatchAddPdf, for one id, from
\* chapter c on
RECURSIVE BatchAddId(_, _, _, _)
BatchAddId(items, doc, c, id) ==
    IF c > Len(doc) THEN items
    ELSE LET i == find(doc[c].segments, id)
             seg == doc[c].segments[i]
         IN  IF i # 0 /\ (seg.isChapterHeader \/ seg.status = "done")
             THEN BatchAddId(
                    addToPdfState(items, seg.isChapterHeader, seg.text,
                                  EnTextOf(seg), VocabOf(seg)),
                    doc, c + 1, id)
             ELSE BatchAddId(items, doc, c + 1, id)

\* segmentIds.forEach in handleBatchAddPdf
RECURSIVE BatchAddIds(_, _, _)
BatchAddIds(items, doc, segmentIds) ==
    IF segmentIds = <<>> THEN items
    ELSE BatchAddIds(BatchAddId(items, doc, 1, Head(segmentIds)), doc,
                     Tail(segmentIds))

handleBatchAddPdf(segmentIds) ==
    /\ Len(BatchAddIds(pdfItems, Doc(chapters), segmentIds)) <= MaxPdfItems
    /\ pdfItems' = BatchAddIds(pdfItems, Doc(chapters), segmentIds)
    /\ UNCHANGED <<vocabDB, novelVars, asyncVars, chunkVars, textVars>>

\* prev.filter((_, i) => i !== index)
RemoveAt(prev, index) ==
    SubSeq(prev, 1, index) \o SubSeq(prev, index + 2, Len(prev))

onRemoveItem(index) ==
    /\ pdfItems' = RemoveAt(pdfItems, index)
    /\ UNCHANGED <<vocabDB, novelVars, asyncVars, chunkVars, textVars>>

\* handleClearPdf, the confirm dialog accepted
handleClearPdf ==
    /\ pdfItems' = <<>>
    /\ UNCHANGED <<vocabDB, novelVars, asyncVars, chunkVars, textVars>>

\* handleImportProject, once the file is decoded and parsed, for a project
\* with chapters and a file name; data.pdfItems may be missing
handleImportProject(data) ==
    /\ Len(docs) < MaxImports
    /\ docs' = Sweep(Append(docs, data.chapters), Len(docs) + 1, calls)
    /\ chapters' = Len(docs) + 1
    /\ currentFileName' = data.fileName
    /\ pdfItems' = IF "pdfItems" \in DOMAIN data THEN data.pdfItems ELSE <<>>
    /\ novelProgress' = [fileName |-> data.fileName, chapters |-> Len(docs) + 1]
    /\ UNCHANGED <<vocabDB, fileText, asyncVars, chunkVars, textVars>>

\* --- inputs ---

E_go == <<"G", "o">>

\* the chapters of a project saved after the novel was translated and its
\* first paragraph (Annotated1) or both paragraphs (Annotated2) annotated
Translated ==
    LET parsed == parseNovel(N_chapter.text)
    IN  [parsed EXCEPT ![1].segments = StoreTranslations(@, 1, <<E_ran, E_go>>, 0),
                       ![1].isTranslated = TRUE]

Annotated1 == StoreResults(Translated, <<[id |-> SegId(1), vocab |-> <<V_l3>>]>>)
Annotated2 ==
    StoreResults(Annotated1, <<[id |-> SegId(2), vocab |-> <<V_l4>>]>>)

\* project files: one saved with two print items, one saved by a version
\* that wrote no pdfItems
ProjectFiles ==
    { [fileName |-> N_chapter.name, chapters |-> Annotated2,
       pdfItems |-> BatchAddIds(<<>>, Annotated2, <<SegId(0), SegId(2)>>)],
      [fileName |-> N_chapter.name, chapters |-> Annotated1] }

ImportProject == \E data \in ProjectFiles : handleImportProject(data)

BatchAddPdf ==
    \E segmentIds \in Selections(Doc(chapters)) : handleBatchAddPdf(segmentIds)

RemoveItem == \E index \in 0..(Len(pdfItems) - 1) : onRemoveItem(index)

ClearPdf == handleClearPdf

NextPdf ==
    \/ ImportProject
    \/ BatchAddPdf
    \/ RemoveItem
    \/ ClearPdf
    \/ ClearNovel

SpecPdf == InitApp /\ [][NextPdf]_vars

\* items have been put at the end, one by each addToPdfState call of the
\* handler
AppendsAtEnd ==
    /\ Len(pdfItems') > Len(pdfItems)
    /\ SubSeq(pdfItems', 1, Len(pdfItems)) = pdfItems

\* the item at one index has been taken out, the others kept in order
RemovesOne == \E index \in 0..(Len(pdfItems) - 1) : pdfItems' = RemoveAt(pdfItems, index)

\* C20: every change of pdfItems is an append at the end (one item per
\* addToPdfState call) or the removal of the item at one index, the others
\* kept in their order; no step replaces, reorders or empties the sequence
\* at once.
C20_AsClaimed == [][AppendsAtEnd \/ RemovesOne]_pdfItems

---------------------------------------------------------------------------
(* Vocabulary import: App.tsx                                              *)

MaxLoads == 1
MaxReads == 1

\* \b at the gap before text[p]: a word character on exactly one side
AtWordBoundary(text, p) ==
    (p > 1 /\ p - 1 <= Len(text) /\ IsWordChar(text[p - 1]))
        # (p <= Len(text) /\ IsWordChar(text[p]))

\* [a-zA-Z-]
IsVocabChar(c) == IsLetter(c) \/ c = "-"

\* index of the last character of the run of [a-zA-Z-] that starts at i
RECURSIVE VocabRunEnd(_, _)
VocabRunEnd(text, i) ==
    IF i < Len(text) /\ IsVocabChar(text[i + 1]) THEN VocabRunEnd(text, i + 1) ELSE i

\* the ends j the pattern can stop at, for a match that starts at i: two or
\* more characters of the run, and \b after the last
VocabEnds(text, i) ==
    {j \in (i + 1)..VocabRunEnd(text, i) : AtWordBoundary(text, j + 1)}

\* text.match(/\b[a-zA-Z-]{2,}\b/g), scanning from index i: the quantifier
\* is greedy, so a match ends at the last possible end; the scan goes on
\* after a match, and one character on where none starts
RECURSIVE VocabWordsFrom(_, _)
VocabWordsFrom(text, i) ==
    IF i > Len(text) THEN <<>>
    ELSE IF IsVocabChar(text[i]) /\ AtWordBoundary(text, i) /\ VocabEnds(text, i) # {}
    THEN LET j == CHOOSE e \in VocabEnds(text, i) : \A f \in VocabEnds(text, i) : f <= e
         IN  <<SubSeq(text, i, j)>> \o VocabWordsFrom(text, j + 1)
    ELSE VocabWordsFrom(text, i + 1)

\* the updater of setVocabDB in handleVocabImport, with a set that starts
\* empty instead of as a copy of the tier
VocabUpdaterFresh(prevDB, level, words) ==
    [prevDB EXCEPT ![level] = {toLowerCase(words[i]) : i \in DOMAIN words}]

\* the updater of setVocabDB in handleVocabImport
VocabUpdater(prevDB, level, words) ==
    [prevDB EXCEPT ![level] = @ \cup {toLowerCase(words[i]) : i \in DOMAIN words}]

\* handleVocabImport(level, text): words is null when nothing matches
handleVocabImport(level, text) ==
    LET words == VocabWordsFrom(text, 1)
    IN  vocabDB' = IF words # <<>> THEN VocabUpdater(vocabDB, level, words)
                   ELSE vocabDB

\* vocab/<level>.txt as the server holds it
DefaultVocabText(level) ==
    CASE level = 1 -> <<"T","h","e"," ","g","o">>
      [] level = 2 -> <<"g","o","-","1",",","a">>
      [] level = 3 -> <<"r","u","n","\n","R","u","n">>
      [] level = 4 -> <<"w","e","l","l","-","o","f","f">>
      [] level = 5 -> <<"7">>
      [] level = 6 -> <<"-","u","p"," ","u","p","-">>

\* the calls of one kind that are under way
CallsOfKind(kind) == {k \in DOMAIN calls : calls[k].kind = kind}

\* loadDefaultVocab up to its awaits: six fetches are under way
loadDefaultVocab ==
    /\ Cardinality(CallsOfKind("fetchVocab")) + 6 <= 6 * MaxLoads
    /\ calls' = calls \o [level \in 1..6 |->
                    [kind |-> "fetchVocab", level |-> level,
                     text |-> DefaultVocabText(level)]]
    /\ UNCHANGED <<vocabDB, pdfItems, novelVars, apiKey, processingState,
                   chunkVars, textVars>>

\* handleVocabFile up to its await
handleVocabFile(level, file) ==
    /\ Cardinality(CallsOfKind("readVocab")) < MaxReads
    /\ calls' = Append(calls, [kind |-> "readVocab", level |-> level, text |-> file])
    /\ UNCHANGED <<vocabDB, pdfItems, novelVars, apiKey, processingState,
                   chunkVars, textVars>>

\* the continuation of a fetch or read whose text has arrived
VocabTextArrives(k) ==
    /\ calls[k].kind \in {"fetchVocab", "readVocab"}
    /\ handleVocabImport(calls[k].level, calls[k].text)
    /\ calls' = RemoveCall(k)
    /\ UNCHANGED <<pdfItems, novelVars, apiKey, processingState, chunkVars,
                   textVars>>

\* a fetch whose response is not ok: the throw skips handleVocabImport
VocabFetchFails(k) ==
    /\ calls[k].kind = "fetchVocab"
    /\ calls' = RemoveCall(k)
    /\ UNCHANGED <<vocabDB, pdfItems, novelVars, apiKey, processingState,
                   chunkVars, textVars>>

\* clearVocab, the confirm dialog accepted
clearVocab ==
    /\ vocabDB' = EmptyDB
    /\ UNCHANGED <<pdfItems, novelVars, asyncVars, chunkVars, textVars>>

\* --- inputs ---

VocabFileTexts == {<<"R","u","n",","," ","a","b","-","1"," ","x","_","u","p">>}

VocabFileLevels == {1, 3}

LoadDefaultVocab == loadDefaultVocab

VocabFile == \E level \in VocabFileLevels, file \in VocabFileTexts : handleVocabFile(level, file)

VocabArrives == \E k \in DOMAIN calls : VocabTextArrives(k)

VocabFails == \E k \in DOMAIN calls : VocabFetchFails(k)

ClearVocab == clearVocab

InitVocab ==
    /\ vocabDB = EmptyDB
    /\ argument = <<>>
    /\ IdleBut

NextVocab ==
    \/ LoadDefaultVocab
    \/ VocabFile
    \/ VocabArrives
    \/ VocabFails
    \/ ClearVocab

SpecVocab == InitVocab /\ [][NextVocab]_vars

\* the lower-cased tokens of a text
LoweredTokens(text) ==
    {toLowerCase(VocabWordsFrom(text, 1)[i]) : i \in DOMAIN VocabWordsFrom(text, 1)}

\* the database after the text of call k went into its tier and nowhere else
UnionInto(k) ==
    [t \in Tiers |->
        IF t = calls[k].level THEN vocabDB[t] \cup LoweredTokens(calls[k].text)
        ELSE vocabDB[t]]

\* C21: vocabulary import has union semantics under every interleaving of
\* the imports under way, the six of loadDefaultVocab included: the step
\* that ends an import leaves its tier equal to the union of what it held
\* and the lower-cased tokens of the text, removes no word and leaves the
\* other tiers as they were (a fetch that fails changes nothing); starting
\* an import changes no tier.
C21_UnionSemantics ==
    [][/\ Len(calls') > Len(calls) => vocabDB' = vocabDB
       /\ Len(calls') < Len(calls) =>
            \E k \in DOMAIN calls :
                /\ calls' = RemoveCall(k)
                /\ \A t \in Tiers : vocabDB[t] \subseteq vocabDB'[t]
                /\ \/ vocabDB' = UnionInto(k)
                   \/ calls[k].kind = "fetchVocab" /\ vocabDB' = vocabDB]_vars

\* the six default imports and a file import into tier 1 have all ended
C21_Witness ==
    /\ calls = <<>>
    /\ vocabDB[1] = {W_the, W_go, W_run, <<"a","b","-">>}
    /\ vocabDB[2] = {<<"g","o","-">>}
    /\ vocabDB[3] = {W_run}
    /\ vocabDB[4] = {<<"w","e","l","l","-","o","f","f">>}
    /\ vocabDB[5] = {}
    /\ vocabDB[6] = {<<"u","p">>}

---------------------------------------------------------------------------
(* getLemma                                                                *)

W_runs == <<"r","u","n","s">>
W_walked == <<"w","a","l","k","e","d">>
W_quicker == <<"q","u","i","c","k","e","r">>
W_quickest == <<"q","u","i","c","k","e","s","t">>

\* words with each of the suffixes, known and unknown bases, irregular forms
LemmaWords ==
    {W_ran, W_went, W_run, W_Run, W_runs, W_running, W_walked, W_happily,
     W_quickly, W_quicker, W_quickest, W_xyzzy}

CallGetLemma == Returns("getLemma", getLemma(argument, vocabDB))

InitLemma ==
    /\ argument \in LemmaWords
    /\ vocabDB \in DbUniverse
    /\ IdleBut

NextLemma == CallGetLemma

SpecLemma == InitLemma /\ [][NextLemma]_vars

\* the stripped forms of the suffix rules that apply to word, in rule order
StrippedForms(word) ==
    (IF endsWith(word, <<"l","y">>) THEN <<DropLast(word, 2)>> ELSE <<>>)
    \o (IF endsWith(word, <<"i","l","y">>) THEN <<DropLast(word, 3) \o <<"y">>>> ELSE <<>>)
    \o (IF endsWith(word, <<"s">>) /\ Len(word) > 3 THEN <<DropLast(word, 1)>> ELSE <<>>)
    \o (IF endsWith(word, <<"e","d">>) /\ Len(word) > 4 THEN <<DropLast(word, 2)>> ELSE <<>>)
    \o (IF endsWith(word, <<"i","n","g">>) /\ Len(word) > 5 THEN <<DropLast(word, 3)>> ELSE <<>>)
    \o (IF endsWith(word, <<"e","r">>) /\ Len(word) > 4 THEN <<DropLast(word, 2)>> ELSE <<>>)
    \o (IF endsWith(word, <<"e","s","t">>) /\ Len(word) > 5 THEN <<DropLast(word, 3)>> ELSE <<>>)

\* w is in some tier
InSomeTier(w) == \E t \in Tiers : w \in vocabDB[t]

\* the lemma as described: the table's base form, else the first stripped
\* form that is in some tier, else the word
LemmaAsDescribed(word) ==
    IF word \in DOMAIN IRREGULAR_VERBS THEN IRREGULAR_VERBS[word]
    ELSE LET known == SelectSeq(StrippedForms(word), InSomeTier)
         IN  IF known # <<>> THEN Head(known) ELSE word

\* C22: getLemma returns the irregular table's base form when the word has
\* one; otherwise the stripped form of the first suffix rule (ly with its
\* ily variant, s, ed, ing, er, est) whose result is in some tier; and the
\* lower-cased word itself when no rule yields a known word.
C22_AsClaimed ==
    callee = "getLemma" =>
        returned.value = LemmaAsDescribed(toLowerCase(argument))

---------------------------------------------------------------------------
(* The card count of the layout chunker                                    *)

V_l2 == [w |-> W_go, l |-> <<"2">>]

\* the level of an entry, as described: its own l when that parses to a
\* non-zero integer, the classifier's level of its word otherwise
LevelAsDescribed(v) ==
    IF ~parseInt(v.l).nan /\ parseInt(v.l).val # 0 THEN parseInt(v.l).val
    ELSE getWordLevel(v.w, vocabDB)

\* the number of entries of level 3..6 of the content items of a batch
RECURSIVE CardsOfBatch(_)
CardsOfBatch(batch) ==
    IF batch = <<>> THEN 0
    ELSE Cardinality({i \in DOMAIN Head(batch).item.data.vocab :
                        LevelAsDescribed(Head(batch).item.data.vocab[i]) \in 3..6})
            + CardsOfBatch(Tail(batch))

IsLowEntry(v) == LevelAsDescribed(v) \in {1, 2, 99}

\* the item without its entries of level 1, 2 and 99
WithoutLow(item) ==
    IF item.type # "content" THEN item
    ELSE [item EXCEPT !.data.vocab = SelectSeq(@, LAMBDA v : ~IsLowEntry(v))]

\* the item with entries of level 1, 2 and 99 put around its own
WithMoreLow(item) ==
    IF item.type # "content" THEN item
    ELSE [item EXCEPT !.data.vocab = <<V_extra>> \o @ \o <<V_l2, V_basic>>]

\* the rows as a grouping: the type and the indices of each
RowShapes(rows) ==
    [r \in DOMAIN rows |-> [type |-> rows[r].type, indices |-> RowIndices(rows[r])]]

\* C23: the card count used for balancing counts exactly the entries whose
\* level (their own l when it parses to a non-zero integer, getWordLevel of
\* the word otherwise) is in 3..6: while a call runs, the card height of
\* the pending batch is CardWeight for each such entry; and removing or
\* adding entries of level 1, 2 or 99 on the content items leaves the rows
\* computeSmartChunks produces the same grouping.
C23_CardCount ==
    /\ pcChunk = "loop" => accCardH = CardWeight * CardsOfBatch(currentBatch)
    /\ Returned =>
        /\ RowShapes(processedGroups)
             = RowShapes(computeSmartChunks(
                    [i \in DOMAIN pdfItems |-> WithoutLow(pdfItems[i])], vocabDB))
        /\ RowShapes(processedGroups)
             = RowShapes(computeSmartChunks(
                    [i \in DOMAIN pdfItems |-> WithMoreLow(pdfItems[i])], vocabDB))

\* a call has returned on items of which one has five cards and the others
\* only entries of level 99 and 1; the first row closed on the second item
C23_Witness ==
    /\ Returned
    /\ pdfItems = <<C_cards5, C_plain, C_plain>>
    /\ RowShapes(processedGroups)
         = <<[type |-> "smart-row", indices |-> <<0, 1>>],
             [type |-> "smart-row", indices |-> <<2>>]>>

\* C24: formatChapterTitle is total and lenient: on every heading it
\* returns a string, and a heading that none of the Chapter-number,
\* CJK-numbered, prologue and epilogue rules matches comes back character
\* for character.
C24_Lenient ==
    callee = "formatChapterTitle" =>
        /\ returned # Null
        /\ DOMAIN returned.value = 1..Len(returned.value)
        /\ argument \in UnmatchedHeadings => returned.value = argument

\* a heading with a Roman number, which the parser takes for a heading and
\* no rule of the formatter matches, has come back as it was
C24_Witness ==
    /\ callee = "formatChapterTitle"
    /\ argument = T_chapterIV
    /\ chapterRegexTest(argument)
    /\ returned.value = T_chapterIV

---------------------------------------------------------------------------
(* A failed annotation call: App.tsx                                       *)

\* the status of the segment with the given id, Null when there is none
StatusOf(doc, id) ==
    IF \E c \in DOMAIN doc : find(doc[c].segments, id) # 0
    THEN LET c == CHOOSE c \in DOMAIN doc : find(doc[c].segments, id) # 0
         IN  doc[c].segments[find(doc[c].segments, id)].status
    ELSE Null

\* handleGenerateNotes(segmentIds) up to its await, as above; the call
\* record also keeps, as history that the closure does not hold, the
\* statuses the segments named had when the handler was called
handleGenerateNotesRecorded(segmentIds) ==
    /\ chapters # 0
    /\ \E c \in DOMAIN Doc(chapters) : Doc(chapters)[c].isTranslated
    /\ ~isBatchProcessing
    /\ validateApiConfig
    /\ Len(calls) < MaxCalls
    /\ processingState' =
          [type |-> IF Len(segmentIds) > 1 THEN "batch" ELSE "segment",
           id |-> IF Len(segmentIds) = 1 THEN segmentIds[1] ELSE BatchId]
    /\ \E st \in {PreparePayload([doc |-> Doc(chapters), payload |-> <<>>],
                                 segmentIds, vocabDB)} :
        /\ docs' = [docs EXCEPT ![chapters] = st.doc]
        /\ calls' = Append(calls,
                [kind |-> "notes", newChapters |-> chapters,
                 segmentIds |-> segmentIds, payload |-> st.payload,
                 currentFileName |-> currentFileName,
                 statusBefore |-> [i \in DOMAIN segmentIds |->
                                    StatusOf(Doc(chapters), segmentIds[i])]])
    /\ chapters' = chapters
    /\ UNCHANGED <<vocabDB, pdfItems, fileText, currentFileName, novelProgress,
                   apiKey, chunkVars, textVars>>

GenerateNotesRecorded ==
    \E segmentIds \in Selections(Doc(chapters)) :
        handleGenerateNotesRecorded(segmentIds)

\* the application with a novel whose only chapter has been translated
InitNotes ==
    /\ vocabDB = SampleDB
    /\ docs = <<Translated>>
    /\ chapters = 1
    /\ fileText = N_chapter.text
    /\ currentFileName = N_chapter.name
    /\ novelProgress = [fileName |-> N_chapter.name, chapters |-> 1]
    /\ apiKey = K_key
    /\ processingState = Null
    /\ calls = <<>>
    /\ pdfItems = <<>>
    /\ argument = <<>>
    /\ callee = "none"
    /\ returned = Null
    /\ chunks = <<>>
    /\ currentBatch = <<>>
    /\ accTextH = 0
    /\ accCardH = 0
    /\ pos = 0
    /\ pcChunk = "idle"
    /\ processedGroups = <<>>
    /\ renders = 0

NextNotes ==
    \/ GenerateNotesRecorded
    \/ NotesReturn
    \/ NotesThrow

SpecNotes == InitNotes /\ [][NextNotes]_vars

\* the vocabResult of every segment, by chapter and position
VocabResults(doc) ==
    [c \in DOMAIN doc |->
        [i \in DOMAIN doc[c].segments |->
            IF "vocabResult" \in DOMAIN doc[c].segments[i]
            THEN doc[c].segments[i].vocabResult ELSE Null]]

\* C25: when generateVocabNotes throws, every segment named in the request
\* ends with the status it had before the request was issued and no
\* vocabResult is changed; stated here for the segments the claim singles
\* out, those that were 'done' or 'error' when the request was issued.
C25_AsClaimed ==
    [][\A k \in DOMAIN calls :
        NotesRejected(k) =>
            /\ \A i \in DOMAIN calls[k].segmentIds :
                   calls[k].statusBefore[i] \in {"done", "error"} =>
                       StatusOf(docs'[calls[k].newChapters],
                                calls[k].segmentIds[i])
                           = calls[k].statusBefore[i]
            /\ VocabResults(docs'[calls[k].newChapters])
                   = VocabResults(docs[calls[k].newChapters])]_vars

---------------------------------------------------------------------------
(* Completion of the calls: App.tsx                                        *)

\* the non-header segments of chapter c of doc that are 'translating'
StillTranslating(doc, c) ==
    {i \in DOMAIN doc[c].segments :
        /\ ~doc[c].segments[i].isChapterHeader
        /\ doc[c].segments[i].status = "translating"}

\* C26: once a handleTranslateChapter call has completed, whether the
\* translator resolved, threw, or resolved with fewer texts than requested,
\* no non-header segment of that chapter is left with status 'translating'.
C26_AsClaimed ==
    [][\A k \in DOMAIN calls :
        (calls[k].kind = "translate" /\ calls' = RemoveCall(k)
            /\ processingState' = Null /\ chapters' = calls[k].newChapters)
        => StillTranslating(docs'[calls[k].newChapters], calls[k].index + 1) = {}
      ]_vars


\* the status of every segment, by chapter and position
Statuses(doc) ==
    [c \in DOMAIN doc |->
        [i \in DOMAIN doc[c].segments |-> doc[c].segments[i].status]]

\* C27: applying an annotation response changes the status and vocabResult
\* only of segments whose ids were in the request payload; a result whose
\* id was not requested (a header's id, a segment without translated text)
\* neither marks that segment 'done' nor attaches a vocabResult to it.
C27_AsClaimed ==
    [][\A k \in DOMAIN calls :
        calls[k].kind = "notes" =>
            \A results \in ResultsFor(calls[k]) :
                NotesResolved(k, results) =>
                    LET before == docs[calls[k].newChapters]
                        after == docs'[calls[k].newChapters]
                    IN  \A c \in DOMAIN before :
                            \A i \in DOMAIN before[c].segments :
                                before[c].segments[i].id \notin PayloadIds(calls[k])
                                => /\ Statuses(after)[c][i] = Statuses(before)[c][i]
                                   /\ VocabResults(after)[c][i]
                                          = VocabResults(before)[c][i]]_vars


\* C28: whenever a translation or annotation call is in flight,
\* processingState is non-null; when two calls overlap, the completion of
\* the first does not clear it while the second is pending.
C28_AsClaimed == calls # <<>> => processingState # Null

---------------------------------------------------------------------------
(* The chapter list replaced while a call is in flight: App.tsx            *)

\* chapter arrays alive at once: the one a suspended handler captured and
\* the one loaded since
MaxLists == 2

\* handleImportProject, as above, used while a handler is suspended
handleImportProjectDuringCall(data) ==
    /\ calls # <<>>
    /\ Len(docs) < MaxLists
    /\ docs' = Sweep(Append(docs, data.chapters), Len(docs) + 1, calls)
    /\ chapters' = Len(docs) + 1
    /\ currentFileName' = data.fileName
    /\ pdfItems' = IF "pdfItems" \in DOMAIN data THEN data.pdfItems ELSE <<>>
    /\ novelProgress' = [fileName |-> data.fileName, chapters |-> Len(docs) + 1]
    /\ UNCHANGED <<vocabDB, fileText, asyncVars, chunkVars, textVars>>

\* handleNovelImport, as above, used while a handler is suspended
handleNovelImportDuringCall(file) ==
    /\ calls # <<>>
    /\ Len(docs) < MaxLists
    /\ fileText' = file.text
    /\ \E parsedChapters \in {parseNovel(file.text)} :
        /\ docs' = Sweep(Append(docs, parsedChapters), Len(docs) + 1, calls)
        /\ chapters' = Len(docs) + 1
        /\ currentFileName' = file.name
        /\ novelProgress' = [fileName |-> file.name, chapters |-> Len(docs) + 1]
    /\ UNCHANGED <<vocabDB, pdfItems, asyncVars, chunkVars, textVars>>

N_other == [name |-> <<"b">>, text |-> <<"p">>]

ImportProjectDuringCall ==
    \E data \in ProjectFiles : handleImportProjectDuringCall(data)

ImportNovelDuringCall ==
    \E file \in {N_chapter, N_other} : handleNovelImportDuringCall(file)

\* one handler suspended at a time
TranslateAlone == calls = <<>> /\ TranslateChapter
AnnotateAlone == calls = <<>> /\ GenerateNotes

NextReplace ==
    \/ ImportNovel
    \/ TranslateAlone
    \/ TranslateReturns
    \/ TranslateThrows
    \/ AnnotateAlone
    \/ NotesReturn
    \/ NotesThrow
    \/ ImportProjectDuringCall
    \/ ImportNovelDuringCall

SpecReplace == InitApp /\ [][NextReplace]_vars

\* C29: if the chapter list is replaced, by a project import or a novel
\* import, while a translation or annotation call is in flight, the
\* completion of that call overwrites neither the newly loaded chapter
\* list nor its persisted copy with the list captured when the call started.
C29_AsClaimed ==
    [][\A k \in DOMAIN calls :
        (/\ calls' = RemoveCall(k)
         /\ chapters # 0
         /\ chapters # calls[k].newChapters)
        => /\ chapters' = chapters
           /\ novelProgress' = novelProgress]_vars

---------------------------------------------------------------------------
(* handleBatchAddPdf on a selection in any order: App.tsx                  *)

\* Array.from(selectedSegments): the ids ticked, in the order of ticking
TickOrders(doc) ==
    {ids \in SeqUpTo(SegmentIdsOf(doc), Cardinality(SegmentIdsOf(doc))) :
        /\ ids # <<>>
        /\ \A i, j \in DOMAIN ids : i # j => ids[i] # ids[j]}

\* a project whose first paragraph is annotated and whose second failed
AnnotatedFailed == [Annotated1 EXCEPT ![1].segments[3].status = "error"]

BatchProjects == {Translated, Annotated1, Annotated2, AnnotatedFailed}

InitBatch ==
    /\ vocabDB = SampleDB
    /\ docs \in {<<d>> : d \in BatchProjects}
    /\ chapters = 1
    /\ fileText = <<>>
    /\ currentFileName = N_chapter.name
    /\ novelProgress = [fileName |-> N_chapter.name, chapters |-> 1]
    /\ apiKey = K_key
    /\ processingState = Null
    /\ calls = <<>>
    /\ pdfItems = <<>>
    /\ argument = <<>>
    /\ callee = "none"
    /\ returned = Null
    /\ chunks = <<>>
    /\ currentBatch = <<>>
    /\ accTextH = 0
    /\ accCardH = 0
    /\ pos = 0
    /\ pcChunk = "idle"
    /\ processedGroups = <<>>
    /\ renders = 0

BatchAddTicked ==
    \E segmentIds \in TickOrders(Doc(chapters)) : handleBatchAddPdf(segmentIds)

NextBatch ==
    \/ BatchAddTicked
    \/ RemoveItem
    \/ ClearPdf

SpecBatch == InitBatch /\ [][NextBatch]_vars

\* the segment of doc with the given id (ids are unique in a parsed novel)
SegmentWithId(doc, id) ==
    LET c == CHOOSE c \in DOMAIN doc : find(doc[c].segments, id) # 0
    IN  doc[c].segments[find(doc[c].segments, id)]

\* the items the selection is said to add: one per id that names a header
\* or a 'done' segment, in the order of the ids
ItemsAsDescribed(doc, segmentIds) ==
    LET kept == SelectSeq(segmentIds,
                    LAMBDA id : \/ SegmentWithId(doc, id).isChapterHeader
                                \/ SegmentWithId(doc, id).status = "done")
    IN  [n \in DOMAIN kept |->
            LET seg == SegmentWithId(doc, kept[n])
            IN  IF seg.isChapterHeader
                THEN [type |-> "header", data |-> [text |-> seg.text]]
                ELSE [type |-> "content",
                      data |-> [cn |-> seg.text, en |-> EnTextOf(seg),
                                vocab |-> VocabOf(seg)]]]

\* C30: handleBatchAddPdf appends an item for a selected segment only if
\* it is a chapter header (a 'header' item carrying its text) or has
\* status 'done' (a 'content' item carrying its source text, translated
\* text and vocab list); segments in any other status add nothing, and the
\* items are appended in the order of the given id list.
C30_BatchAdd ==
    [][\A segmentIds \in TickOrders(Doc(chapters)) :
        handleBatchAddPdf(segmentIds)
        => pdfItems' = pdfItems \o ItemsAsDescribed(Doc(chapters), segmentIds)]_vars

\* a selection ticked against the document order, holding a paragraph that
\* is not done, was added: the done paragraph's item, then the header's
C30_Witness ==
    /\ Doc(chapters) \in {Annotated1, AnnotatedFailed}
    /\ pdfItems = <<Content(<<"p">>, E_ran, <<V_l3>>),
                    Header(Doc(chapters)[1].segments[1].text)>>

=============================================================================
